---- MODULE Spec2Model ----
(***************************************************************************)
(* Censei: the concurrent host-processing engine.                          *)
(*                                                                         *)
(* The model follows crawler/worker.go (the revision with blocklist and    *)
(* recursive scanner), scanners/directory.go, filter/blocklist.go,         *)
(* output/writer.go, filechecker/filechecker.go and the run function of    *)
(* main.  Every access to a shared object (atomic counter, sync.Map,       *)
(* mutex-protected structure, channel) is one step of the goroutine that   *)
(* makes it; purely local computation is folded into the step that         *)
(* follows it.                                                             *)
(***************************************************************************)
EXTENDS Integers, Sequences, FiniteSets, TLC

VARIABLES
  scen,            \* the run's inputs: host list, fetch surface, configuration
  mainPc,          \* position of the main goroutine (runQueryConfig / ProcessHosts)
  wk,              \* per worker goroutine: position and locals
  hostChan,        \* hostChan: the hosts not yet received
  processedCount,  \* Worker.processedCount
  totalLinksCount, \* DirectoryScanner.totalLinksCount (one scanner per Worker)
  skipCounters,    \* Worker.skipCounters: base host -> count
  blockedHosts,    \* Worker.blockedHosts
  skippedHosts,    \* Worker.skippedHosts
  stats,           \* Worker.stats
  out,             \* output.Writer: raw, filtered, binaryFindings, binary file
  blHosts,         \* Blocklist.hosts: hostname -> timestamp
  blFile,          \* the blocklist file on disk
  saveChan,        \* Blocklist.saveChan (capacity 1): number of signals buffered
  stopChan,        \* Blocklist.stopChan: TRUE once closed
  saver,           \* the saveWorker goroutine: position, pendingSave, snapshot
  timer,           \* saveTimer
  clock,           \* time.Now(), advanced by every AddHost that inserts
  log              \* history: fetches, probes, hand-overs, AddHost calls

vars == <<scen, mainPc, wk, hostChan, processedCount, totalLinksCount,
          skipCounters, blockedHosts, skippedHosts, stats, out, blHosts,
          blFile, saveChan, stopChan, saver, timer, clock, log>>

(***************************************************************************)
(* Bounds of the model.                                                    *)
(***************************************************************************)
NumWorkers == 2

Workers == 1..NumWorkers

(***************************************************************************)
(* Small helpers on sequences and functions.                               *)
(***************************************************************************)
Range(s) == {s[i] : i \in DOMAIN s}

Front(s) == SubSeq(s, 1, Len(s) - 1)

Last(s) == s[Len(s)]

Put(f, k, v) == [x \in (DOMAIN f) \cup {k} |-> IF x = k THEN v ELSE f[x]]

EmptyFn == [x \in {} |-> 0]

(***************************************************************************)
(* URLs.  A URL string scheme://host[:port]/seg/.../seg[/] is kept in      *)
(* parsed form; port 0 stands for "no port in the string".  A path segment *)
(* is a name and an extension ("" when the segment holds no dot).          *)
(***************************************************************************)
Seg(n, e) == [n |-> n, e |-> e]

DotDot == Seg("..", "")

Dot == Seg(".", "")

URL(scheme, host, port, path, slash) ==
  [scheme |-> scheme, host |-> host, port |-> port, path |-> path, slash |-> slash]

\* api.Host.URL as built by the query client: scheme://address[:port], no path
HostURL(host, port) == URL("http", host, port, <<>>, FALSE)

(***************************************************************************)
(* Anchors of a listing.  kind "rel": a relative reference, "abspath": a   *)
(* reference starting with "/", "absurl": a full URL, "bad": an href that  *)
(* url.Parse rejects, "none": an anchor without href.                      *)
(***************************************************************************)
Rel(segs, slash) == [kind |-> "rel", segs |-> segs, slash |-> slash, url |-> HostURL("", 0)]

AbsPath(segs, slash) == [kind |-> "abspath", segs |-> segs, slash |-> slash, url |-> HostURL("", 0)]

AbsURL(u) == [kind |-> "absurl", segs |-> <<>>, slash |-> FALSE, url |-> u]

BadHref == [kind |-> "bad", segs |-> <<>>, slash |-> FALSE, url |-> HostURL("", 0)]

NoHref == [kind |-> "none", segs |-> <<>>, slash |-> FALSE, url |-> HostURL("", 0)]

FileRef(n, e) == Rel(<<Seg(n, e)>>, FALSE)

DirRef(n) == Rel(<<Seg(n, "")>>, TRUE)

\* href == "../" || href == ".." || href == "." || href == "/"
IsNav(h) ==
  \/ h.kind = "rel" /\ h.segs = <<DotDot>>
  \/ h.kind = "rel" /\ h.segs = <<Dot>> /\ ~h.slash
  \/ h.kind = "abspath" /\ h.segs = <<>>

\* removal of "." and ".." segments, as url.ResolveReference does
RECURSIVE RemoveDots(_, _)
RemoveDots(segs, acc) ==
  IF segs = <<>> THEN acc
  ELSE IF Head(segs) = Dot THEN RemoveDots(Tail(segs), acc)
  ELSE IF Head(segs) = DotDot
       THEN RemoveDots(Tail(segs), IF acc = <<>> THEN acc ELSE Front(acc))
  ELSE RemoveDots(Tail(segs), Append(acc, Head(segs)))

\* baseURL.ResolveReference(fileURL)
ResolveReference(base, h) ==
  IF h.kind = "absurl" THEN h.url
  ELSE IF h.kind = "abspath"
       THEN [base EXCEPT !.path = RemoveDots(h.segs, <<>>), !.slash = h.slash]
  ELSE LET dir == IF base.slash \/ base.path = <<>> THEN base.path ELSE Front(base.path)
       IN  [base EXCEPT !.path = RemoveDots(dir \o h.segs, <<>>), !.slash = h.slash]

\* DirectoryScanner.extractLinks: anchors in document order, navigation dropped,
\* each resolved against the URL of the listing it stands in
ExtractOne(base, h) == ResolveReference(base, h)

extractLinks(base, body) ==
  LET keep(h) == h.kind \notin {"none", "bad"} /\ ~IsNav(h)
      kept == SelectSeq(body.anchors, keep)
  IN  [i \in 1..Len(kept) |-> ExtractOne(base, kept[i])]

\* DirectoryScanner.IsDirectoryListing: an indicator substring, or more than
\* five anchors that are not navigation
IsDirectoryListing(body) ==
  \/ body.indicator
  \/ Cardinality({i \in DOMAIN body.anchors :
                    body.anchors[i].kind # "none" /\ ~IsNav(body.anchors[i])}) > 5

\* DirectoryScanner.isDirectory: trailing "/" or a last part without "."
\* (the hostnames of the model all hold a dot, so a URL without path is a file)
isDirectory(u) ==
  \/ u.slash
  \/ u.path # <<>> /\ Last(u.path).e = ""

\* Worker.extractBaseHost: parsedURL.Hostname()
extractBaseHost(u) == u.host

\* strings.ToLower on the extensions of the model
ToLower(e) ==
  CASE e = "EXE" -> "exe"
    [] e = "PDF" -> "pdf"
    [] OTHER -> e

\* filepath.Ext of the URL string, lowercased
Ext(u) ==
  IF u.slash \/ u.path = <<>> \/ Last(u.path).e = "" THEN ""
  ELSE ToLower(Last(u.path).e)

\* Filter.ShouldFilter over the normalised extension set
ShouldFilter(filters, u) ==
  IF filters = {} THEN FALSE ELSE Ext(u) \in filters

(***************************************************************************)
(* Content probes.  FileChecker decides "binary" by substring containment  *)
(* in the Content-Type header; the content types of the model are whole    *)
(* header values.                                                          *)
(***************************************************************************)
isBinaryContent(ct) ==
  ct \in {"application/octet-stream", "application/x-msdownload",
          "application/octet-stream with Content-Type: text/html"}

(***************************************************************************)
(* The inputs of a run.  Each scenario fixes the host list handed over by  *)
(* the query client, the configuration, the pre-run blocklist file and the *)
(* fetch surface (what the network answers for each URL).                  *)
(***************************************************************************)
NoTarget == Seg("", "")

Sub(host, port, segs, slash) == URL("http", host, port, segs, slash)

Scenarios ==
  {"budget", "blocked", "dups", "target", "s1", "s2", "s3", "depth1", "flat", "werr",
   "cycle", "suppress", "burst", "empty", "traversal"}

Config(s) ==
  CASE s = "budget" ->
         [hosts |-> <<HostURL("a.test", 0), HostURL("b.test", 0)>>,
          recursive |-> TRUE, maxDepth |-> 2,
          maxLinksPerDirectory |-> 0, maxTotalLinks |-> 1,
          maxSkipsBeforeBlock |-> 2, enableBlocklist |-> TRUE,
          check |-> FALSE, target |-> NoTarget, filters |-> {"exe"},
          preFile |-> {"old.test"}]
    [] s = "blocked" ->
         [hosts |-> <<HostURL("evil.test", 8080), HostURL("c.test", 0),
                     HostURL("evil.test", 0)>>,
          recursive |-> TRUE, maxDepth |-> 2,
          maxLinksPerDirectory |-> 2, maxTotalLinks |-> 0,
          maxSkipsBeforeBlock |-> 1, enableBlocklist |-> TRUE,
          check |-> FALSE, target |-> NoTarget, filters |-> {"txt"},
          preFile |-> {"evil.test"}]
    [] s = "dups" ->
         [hosts |-> <<HostURL("d.test", 0), HostURL("off.test", 0), HostURL("a.test", 0)>>,
          recursive |-> TRUE, maxDepth |-> 3,
          maxLinksPerDirectory |-> 0, maxTotalLinks |-> 0,
          maxSkipsBeforeBlock |-> 0, enableBlocklist |-> FALSE,
          check |-> TRUE, target |-> NoTarget, filters |-> {"exe"},
          preFile |-> {}]
    [] s = "target" ->
         [hosts |-> <<HostURL("p.test", 0), HostURL("q.test", 8080)>>,
          recursive |-> FALSE, maxDepth |-> 1,
          maxLinksPerDirectory |-> 0, maxTotalLinks |-> 0,
          maxSkipsBeforeBlock |-> 0, enableBlocklist |-> TRUE,
          check |-> TRUE, target |-> Seg("payload", "exe"), filters |-> {"exe"},
          preFile |-> {}]
    [] s = "s1" ->
         [hosts |-> <<HostURL("a.test", 0)>>,
          recursive |-> FALSE, maxDepth |-> 1,
          maxLinksPerDirectory |-> 0, maxTotalLinks |-> 0,
          maxSkipsBeforeBlock |-> 0, enableBlocklist |-> FALSE,
          check |-> FALSE, target |-> NoTarget, filters |-> {"pdf"},
          preFile |-> {}]
    [] s = "s2" ->
         [hosts |-> <<HostURL("b.test", 0)>>,
          recursive |-> TRUE, maxDepth |-> 2,
          maxLinksPerDirectory |-> 2, maxTotalLinks |-> 0,
          maxSkipsBeforeBlock |-> 0, enableBlocklist |-> FALSE,
          check |-> FALSE, target |-> NoTarget, filters |-> {"exe"},
          preFile |-> {}]
    [] s = "s3" ->
         [hosts |-> <<HostURL("c.test", 0)>>,
          recursive |-> TRUE, maxDepth |-> 2,
          maxLinksPerDirectory |-> 0, maxTotalLinks |-> 3,
          maxSkipsBeforeBlock |-> 1, enableBlocklist |-> TRUE,
          check |-> FALSE, target |-> NoTarget, filters |-> {},
          preFile |-> {}]
    [] s \in {"depth1", "flat"} ->
         [hosts |-> <<HostURL("b.test", 0), HostURL("q.test", 8080)>>,
          recursive |-> (s = "depth1"), maxDepth |-> 1,
          maxLinksPerDirectory |-> 2, maxTotalLinks |-> 1,
          maxSkipsBeforeBlock |-> 1, enableBlocklist |-> TRUE,
          check |-> FALSE, target |-> NoTarget, filters |-> {"exe"},
          preFile |-> {}]
    [] s = "cycle" ->
         [hosts |-> <<HostURL("d.test", 0)>>,
          recursive |-> TRUE, maxDepth |-> 4,
          maxLinksPerDirectory |-> 0, maxTotalLinks |-> 0,
          maxSkipsBeforeBlock |-> 0, enableBlocklist |-> FALSE,
          check |-> FALSE, target |-> NoTarget, filters |-> {},
          preFile |-> {}]
    [] s = "suppress" ->
         [hosts |-> <<HostURL("c.test", 0), HostURL("a.test", 8080), HostURL("c.test", 0)>>,
          recursive |-> TRUE, maxDepth |-> 2,
          maxLinksPerDirectory |-> 0, maxTotalLinks |-> 1,
          maxSkipsBeforeBlock |-> 1, enableBlocklist |-> FALSE,
          check |-> FALSE, target |-> NoTarget, filters |-> {"exe"},
          preFile |-> {"c.test"}]
    [] s = "burst" ->
         [hosts |-> <<HostURL("a.test", 0)>>,
          recursive |-> TRUE, maxDepth |-> 2,
          maxLinksPerDirectory |-> 0, maxTotalLinks |-> 1,
          maxSkipsBeforeBlock |-> 1, enableBlocklist |-> TRUE,
          check |-> FALSE, target |-> NoTarget, filters |-> {"exe"},
          preFile |-> {"e.test"}]
    [] s = "empty" ->
         [hosts |-> <<HostURL("e.test", 0)>>,
          recursive |-> FALSE, maxDepth |-> 1,
          maxLinksPerDirectory |-> 0, maxTotalLinks |-> 0,
          maxSkipsBeforeBlock |-> 0, enableBlocklist |-> FALSE,
          check |-> TRUE, target |-> Seg("payload", "exe"), filters |-> {"exe"},
          preFile |-> {}]
    [] s = "traversal" ->
         [hosts |-> <<HostURL("t.test", 0)>>,
          recursive |-> FALSE, maxDepth |-> 1,
          maxLinksPerDirectory |-> 0, maxTotalLinks |-> 0,
          maxSkipsBeforeBlock |-> 0, enableBlocklist |-> FALSE,
          check |-> TRUE, target |-> Seg("../payload", "exe"), filters |-> {"exe"},
          preFile |-> {}]
    [] s = "werr" ->
         [hosts |-> <<HostURL("p.test", 0)>>,
          recursive |-> FALSE, maxDepth |-> 1,
          maxLinksPerDirectory |-> 0, maxTotalLinks |-> 0,
          maxSkipsBeforeBlock |-> 0, enableBlocklist |-> FALSE,
          check |-> TRUE, target |-> NoTarget, filters |-> {"exe"},
          preFile |-> {}]
    [] OTHER ->
         [hosts |-> <<>>,
          recursive |-> FALSE, maxDepth |-> 1,
          maxLinksPerDirectory |-> 0, maxTotalLinks |-> 0,
          maxSkipsBeforeBlock |-> 0, enableBlocklist |-> FALSE,
          check |-> FALSE, target |-> NoTarget, filters |-> {},
          preFile |-> {}]

Listing(anchors) == [indicator |-> TRUE, anchors |-> anchors]

Plain(anchors) == [indicator |-> FALSE, anchors |-> anchors]

EmptyBody == Plain(<<>>)

Online(body) == [online |-> TRUE, err |-> FALSE, body |-> body]

Offline == [online |-> FALSE, err |-> FALSE, body |-> EmptyBody]

RequestError == [online |-> FALSE, err |-> TRUE, body |-> EmptyBody]

\* what a GET of u answers in scenario s, as Client.CheckHostAndFetch reports it
Surface(s, u) ==
  CASE s = "budget" /\ u = HostURL("a.test", 0) ->
         Online(Listing(<<Rel(<<DotDot>>, TRUE), FileRef("f1", "exe"), FileRef("f2", "exe"),
                          DirRef("d1"), DirRef("d2")>>))
    [] s = "budget" /\ u = Sub("a.test", 0, <<Seg("d1", "")>>, TRUE) ->
         Online(Listing(<<FileRef("g1", "exe"), FileRef("g2", "exe")>>))
    [] s = "budget" /\ u = Sub("a.test", 0, <<Seg("d2", "")>>, TRUE) ->
         Online(Listing(<<FileRef("g3", "exe")>>))
    [] s = "budget" /\ u = HostURL("b.test", 0) ->
         Online(Listing(<<FileRef("h", "exe")>>))
    [] s = "blocked" /\ u = HostURL("evil.test", 8080) ->
         Online(Listing(<<FileRef("m", "txt")>>))
    [] s = "blocked" /\ u = HostURL("evil.test", 0) ->
         Online(Listing(<<DirRef("pub")>>))
    [] s = "blocked" /\ u = HostURL("c.test", 0) ->
         Online(Listing(<<AbsURL(Sub("evil.test", 0, <<Seg("pub", "")>>, TRUE)),
                          FileRef("r", "txt"), FileRef("s", "txt")>>))
    [] s = "blocked" /\ u = Sub("evil.test", 0, <<Seg("pub", "")>>, TRUE) ->
         Online(Listing(<<FileRef("m", "txt")>>))
    [] s = "dups" /\ u = HostURL("d.test", 0) ->
         Online(Listing(<<FileRef("x", "EXE"), NoHref, FileRef("x", "EXE"), DirRef("s"),
                          FileRef("n", "txt")>>))
    [] s = "dups" /\ u = Sub("d.test", 0, <<Seg("s", "")>>, TRUE) ->
         Online(Listing(<<Rel(<<DotDot, Seg("x", "EXE")>>, FALSE), BadHref,
                          AbsPath(<<>>, TRUE), DirRef("t")>>))
    [] s = "dups" /\ u = Sub("d.test", 0, <<Seg("s", ""), Seg("t", "")>>, TRUE) ->
         Online(Plain(<<FileRef("y", "exe")>>))
    [] s = "dups" /\ u = HostURL("off.test", 0) -> RequestError
    [] s = "target" /\ u = HostURL("p.test", 0) ->
         Online(Listing(<<FileRef("payload", "exe")>>))
    [] s = "target" /\ u = HostURL("q.test", 8080) ->
         Online(Listing(<<Rel(<<Seg("dl", ""), Seg("payload", "exe")>>, FALSE),
                          FileRef("readme", "txt"), FileRef("tool", "exe"),
                          AbsURL(Sub("p.test", 0, <<Seg("mirror", ""), Seg("payload", "exe")>>,
                                     FALSE))>>))
    [] s = "s1" /\ u = HostURL("a.test", 0) ->
         Online(Plain(<<Rel(<<DotDot>>, TRUE), FileRef("f", "pdf"), FileRef("g", "txt")>>))
    [] s = "s2" /\ u = HostURL("b.test", 0) ->
         Online(Listing(<<DirRef("sub"), FileRef("x", "exe"), FileRef("y", "exe")>>))
    [] s = "s2" /\ u = Sub("b.test", 0, <<Seg("sub", "")>>, TRUE) ->
         Online(Listing(<<FileRef("z", "exe"), FileRef("w", "exe"), FileRef("v", "exe")>>))
    [] s = "s3" /\ u = HostURL("c.test", 0) ->
         Online(Listing(<<FileRef("f1", "bin"), FileRef("f2", "bin"), FileRef("f3", "bin"),
                          FileRef("f4", "bin"), FileRef("f5", "bin")>>))
    [] s \in {"depth1", "flat"} /\ u = HostURL("b.test", 0) ->
         Online(Listing(<<DirRef("sub"), FileRef("x", "exe"), FileRef("x", "exe"),
                          FileRef("n", "txt")>>))
    [] s \in {"depth1", "flat"} /\ u = Sub("b.test", 0, <<Seg("sub", "")>>, TRUE) ->
         Online(Listing(<<FileRef("z", "exe")>>))
    [] s \in {"depth1", "flat"} /\ u = HostURL("q.test", 8080) ->
         Online(Listing(<<FileRef("a", "exe")>>))
    [] s = "cycle" /\ u = HostURL("d.test", 0) ->
         Online(Listing(<<DirRef("a"), DirRef("b"), FileRef("r", "txt")>>))
    [] s = "cycle" /\ u = Sub("d.test", 0, <<Seg("a", "")>>, TRUE) ->
         Online(Listing(<<Rel(<<DotDot, Seg("b", "")>>, TRUE), FileRef("x", "txt")>>))
    [] s = "cycle" /\ u = Sub("d.test", 0, <<Seg("b", "")>>, TRUE) ->
         Online(Listing(<<Rel(<<DotDot, Seg("a", "")>>, TRUE), AbsPath(<<Seg("b", "")>>, TRUE),
                          FileRef("y", "txt")>>))
    [] s = "suppress" /\ u = HostURL("c.test", 0) ->
         Online(Listing(<<FileRef("f1", "txt"), FileRef("f2", "txt"),
                          AbsURL(Sub("a.test", 0, <<Seg("d", "")>>, TRUE))>>))
    [] s = "suppress" /\ u = Sub("a.test", 0, <<Seg("d", "")>>, TRUE) ->
         Online(Listing(<<FileRef("g", "txt")>>))
    [] s = "suppress" /\ u = HostURL("a.test", 8080) ->
         Online(Listing(<<FileRef("h", "txt")>>))
    [] s = "burst" /\ u = HostURL("a.test", 0) ->
         Online(Listing(<<FileRef("n1", "txt"), FileRef("n2", "txt"),
                          AbsURL(Sub("b.test", 0, <<Seg("d", "")>>, TRUE)),
                          AbsURL(Sub("c.test", 0, <<Seg("d", "")>>, TRUE)),
                          AbsURL(Sub("e.test", 0, <<Seg("d", "")>>, TRUE)),
                          AbsURL(Sub("b.test", 0, <<Seg("e", "")>>, TRUE))>>))
    [] s = "burst" /\ u \in {Sub("b.test", 0, <<Seg("d", "")>>, TRUE),
                             Sub("c.test", 0, <<Seg("d", "")>>, TRUE),
                             Sub("e.test", 0, <<Seg("d", "")>>, TRUE),
                             Sub("b.test", 0, <<Seg("e", "")>>, TRUE)} ->
         Online(Listing(<<>>))
    [] s = "empty" /\ u = HostURL("e.test", 0) ->
         Online(EmptyBody)
    [] s = "traversal" /\ u = HostURL("t.test", 0) ->
         Online(Listing(<<FileRef("n", "txt")>>))
    [] s = "werr" /\ u = HostURL("p.test", 0) ->
         Online(Listing(<<FileRef("a", "exe"), FileRef("b", "exe")>>))
    [] OTHER -> Offline

\* the Content-Type a GET or HEAD of file u answers with status 200;
\* "" stands for a status other than 200
ContentType(s, u) ==
  CASE s = "dups" /\ u = Sub("d.test", 0, <<Seg("x", "EXE")>>, FALSE) ->
         "application/x-msdownload"
    [] s = "target" /\ u = Sub("p.test", 0, <<Seg("payload", "exe")>>, FALSE) ->
         "application/x-msdownload"
    [] s = "target" /\ u = Sub("q.test", 8080, <<Seg("dl", ""), Seg("payload", "exe")>>, FALSE) ->
         "application/octet-stream"
    [] s = "target" /\ u = Sub("q.test", 8080, <<Seg("tool", "exe")>>, FALSE) ->
         "text/html"
    [] s = "target" /\ u = Sub("p.test", 0, <<Seg("mirror", ""), Seg("payload", "exe")>>, FALSE) ->
         "application/octet-stream"
    [] s = "empty" /\ u = Sub("e.test", 0, <<Seg("payload", "exe")>>, FALSE) ->
         "application/octet-stream"
    [] s = "traversal" /\ u = Sub("t.test", 0, <<Seg("../payload", "exe")>>, FALSE) ->
         "application/octet-stream"
    [] s = "werr" /\ u = Sub("p.test", 0, <<Seg("a", "exe")>>, FALSE) ->
         "application/octet-stream"
    [] s = "werr" /\ u = Sub("p.test", 0, <<Seg("b", "exe")>>, FALSE) ->
         "application/octet-stream with Content-Type: text/html"
    [] OTHER -> ""

\* FileChecker.CheckSpecificFile / CheckFileURL: (found, contentType, err)
ProbeResult(ct) ==
  IF ct = "" THEN [found |-> FALSE, ct |-> "", err |-> TRUE]
  ELSE IF isBinaryContent(ct) THEN [found |-> TRUE, ct |-> ct, err |-> FALSE]
  ELSE [found |-> FALSE, ct |-> ct, err |-> TRUE]

\* TrimSuffix(baseURL, "/") + "/" + fileName
SpecificFileURL(base, name) == [base EXCEPT !.path = Append(base.path, name), !.slash = FALSE]

CheckSpecificFile(s, base, name) == ProbeResult(ContentType(s, SpecificFileURL(base, name)))

CheckFileURL(s, u) == ProbeResult(ContentType(s, u))

\* FileChecker.ShouldCheck: filepath.Base(fileURL) == targetFileName when one is set
ShouldCheck(cfg, u) ==
  IF ~cfg.check THEN FALSE
  ELSE IF cfg.target # NoTarget
       THEN u.path # <<>> /\ ~u.slash /\ Last(u.path) = cfg.target
  ELSE TRUE

(***************************************************************************)
(* State after construction: runQueryConfig has created the Writer and the *)
(* Worker (NewBlocklist has started the save worker, Load has read the     *)
(* file), and is about to call ProcessHosts.                               *)
(***************************************************************************)
cfg == Config(scen)

Hosts == cfg.hosts

\* targetedCheckMode := checkEnabled && fileChecker != nil && targetFileName != ""
targetedCheckMode == cfg.check /\ cfg.target # NoTarget

NoURL == HostURL("", 0)

IdleWorker ==
  [pc |-> "idle", host |-> 0, stack |-> <<>>, visited |-> {}, allLinks |-> <<>>,
   nfiles |-> 0, foundUrls |-> {}, fi |-> 0, ct |-> "", trip |-> 0, ret |-> ""]

ZeroStats ==
  [totalHosts |-> 0, onlineHosts |-> 0, totalFiles |-> 0, filteredFiles |-> 0,
   checkedFiles |-> 0, binaryFilesFound |-> 0, writeErrors |-> 0]

\* the files are created and wrapped in buffered writers; a buffered writer
\* that has returned an error returns it on every later write
NewWriter ==
  [raw |-> <<>>, filtered |-> <<>>, binaryFindings |-> EmptyFn, binaryFile |-> <<>>,
   closed |-> FALSE, rawErr |-> FALSE, filteredErr |-> FALSE, disk |-> "good"]

\* the same over a disk on which a write can fail
FaultyWriter == [NewWriter EXCEPT !.disk = "faulty"]

\* Blocklist.Load: one entry per data line of the file; a timestamp that is
\* present is kept (the pre-run entries of the model carry timestamp 0)
Load(enabled, file) ==
  IF enabled /\ file.exists THEN file.entries ELSE EmptyFn

PreFile(c) ==
  [exists |-> c.preFile # {}, entries |-> [h \in c.preFile |-> 0]]

NewSaverAlways(enabled) ==
  [pc |-> "select", pendingSave |-> FALSE, snapshot |-> EmptyFn]

\* NewBlocklist: the save worker is started only when the blocklist is enabled
NewSaver(enabled) ==
  [pc |-> IF enabled THEN "select" ELSE "off", pendingSave |-> FALSE, snapshot |-> EmptyFn]

EmptyLog ==
  [fetched |-> {}, probed |-> {}, handed |-> <<>>, added |-> {}, written |-> <<>>,
   dirs |-> {}, failed |-> 0, scanned |-> <<>>, descents |-> {},
   suppressed |-> {}, dirBlocked |-> {}, late |-> {}, closeRet |-> <<>>]

InitWith(s, o) ==
  /\ scen = s
  /\ mainPc = "start"
  /\ wk = [w \in Workers |-> IdleWorker]
  /\ hostChan = <<>>
  /\ processedCount = 0
  /\ totalLinksCount = 0
  /\ skipCounters = EmptyFn
  /\ blockedHosts = {}
  /\ skippedHosts = {}
  /\ stats = ZeroStats
  /\ out = o
  /\ blFile = PreFile(Config(s))
  /\ blHosts = Load(Config(s).enableBlocklist, PreFile(Config(s)))
  /\ saveChan = 0
  /\ stopChan = FALSE
  /\ saver = NewSaver(Config(s).enableBlocklist)
  /\ timer = "stopped"
  /\ clock = 1
  /\ log = [EmptyLog EXCEPT !.handed = [i \in DOMAIN Config(s).hosts |-> 0]]

InitFor(s) == InitWith(s, NewWriter)

Init == \E s \in Scenarios : InitFor(s)

(***************************************************************************)
(* output.Writer                                                           *)
(***************************************************************************)
RawLine(k, u, ct, by) == [k |-> k, url |-> u, ct |-> ct, by |-> by]

\* Writer.WriteRawOutput
WriteRawOutput(o, line) == [o EXCEPT !.raw = Append(@, line)]

\* Writer.WriteFilteredOutput
WriteFilteredOutput(o, line) == [o EXCEPT !.filtered = Append(@, line)]

\* whether a write to a buffered writer succeeds: never again after an error,
\* and on a faulty disk it may fail at any call
WriteOutcomes(broken, disk) ==
  IF broken THEN {FALSE} ELSE IF disk = "faulty" THEN {TRUE, FALSE} ELSE {TRUE}

\* WriteRawOutput with its outcome: the line is written, or the error is returned
TryWriteRaw(o, line, ok) ==
  IF ok THEN WriteRawOutput(o, line) ELSE [o EXCEPT !.rawErr = TRUE]

\* WriteFilteredOutput with its outcome
TryWriteFiltered(o, line, ok) ==
  IF ok THEN WriteFilteredOutput(o, line) ELSE [o EXCEPT !.filteredErr = TRUE]

\* a Content-Type header that holds a binary type and the separator of the
\* binary line
SplitCT == "application/octet-stream with Content-Type: text/html"

\* strings.Split(line, " with Content-Type: ") of the line built from a URL
\* and a content type
SplitLine(u, ct) ==
  IF ct = SplitCT THEN <<u, "application/octet-stream", "text/html">> ELSE <<u, ct>>

\* a string that url.Parse rejects
BadURL == URL(":", "", 0, <<>>, FALSE)

\* parsedURL.Scheme + "://" + parsedURL.Host
GroupKey(u) == [scheme |-> u.scheme, host |-> u.host, port |-> u.port]

AlreadyRecordedNever(findings, key, u) == FALSE

\* the loop over w.binaryFindings[host] looking for existing.URL == fileURL
AlreadyRecorded(findings, key, u) ==
  key \in DOMAIN findings /\ \E i \in DOMAIN findings[key] : findings[key][i].url = u

\* Writer.WriteBinaryOutput.  A line is given as the parts strings.Split finds
\* around " with Content-Type: "; the result is the new binaryFindings and
\* whether an error is returned.
WriteBinaryOutput(findings, parts) ==
  IF Len(parts) # 2 THEN [findings |-> findings, err |-> TRUE]
  ELSE IF parts[1] = BadURL THEN [findings |-> findings, err |-> TRUE]
  ELSE LET key == GroupKey(parts[1])
           old == IF key \in DOMAIN findings THEN findings[key] ELSE <<>>
       IN  IF AlreadyRecorded(findings, key, parts[1])
           THEN [findings |-> findings, err |-> FALSE]
           ELSE [findings |-> Put(findings, key,
                                  Append(old, [url |-> parts[1], ct |-> parts[2]])),
                 err |-> FALSE]

(***************************************************************************)
(* Ordering of the group keys as sort.Strings orders the strings           *)
(* scheme://host[:port]: byte-wise lexicographic.                          *)
(***************************************************************************)
DotTest == <<46, 116, 101, 115, 116>>

SchemeChars(sc) ==
  CASE sc = "http" -> <<104, 116, 116, 112>>
    [] sc = "https" -> <<104, 116, 116, 112, 115>>
    [] sc = "ftp" -> <<102, 116, 112>>
    [] OTHER -> <<>>

HostChars(h) ==
  CASE h = "a.test" -> <<97>> \o DotTest
    [] h = "b.test" -> <<98>> \o DotTest
    [] h = "c.test" -> <<99>> \o DotTest
    [] h = "d.test" -> <<100>> \o DotTest
    [] h = "p.test" -> <<112>> \o DotTest
    [] h = "q.test" -> <<113>> \o DotTest
    [] h = "evil.test" -> <<101, 118, 105, 108>> \o DotTest
    [] h = "off.test" -> <<111, 102, 102>> \o DotTest
    [] h = "a.test.b" -> <<97>> \o DotTest \o <<46, 98>>
    [] OTHER -> <<>>

PortChars(p) ==
  CASE p = 0 -> <<>>
    [] p = 80 -> <<58, 56, 48>>
    [] p = 443 -> <<58, 52, 52, 51>>
    [] p = 8080 -> <<58, 56, 48, 56, 48>>
    [] OTHER -> <<58>>

KeyChars(key) ==
  SchemeChars(key.scheme) \o <<58, 47, 47>> \o HostChars(key.host) \o PortChars(key.port)

RECURSIVE LexLess(_, _)
LexLess(a, b) ==
  IF b = <<>> THEN FALSE
  ELSE IF a = <<>> THEN TRUE
  ELSE IF Head(a) < Head(b) THEN TRUE
  ELSE IF Head(a) > Head(b) THEN FALSE
  ELSE LexLess(Tail(a), Tail(b))

KeyLess(k1, k2) == LexLess(KeyChars(k1), KeyChars(k2))

RECURSIVE SortStringsDescending(_)
SortStringsDescending(S) ==
  IF S = {} THEN <<>>
  ELSE LET m == CHOOSE x \in S : \A y \in S \ {x} : KeyLess(y, x)
       IN  <<m>> \o SortStringsDescending(S \ {m})

\* sort.Strings(hosts) over the keys of the map
RECURSIVE SortStrings(_)
SortStrings(S) ==
  IF S = {} THEN <<>>
  ELSE LET m == CHOOSE x \in S : \A y \in S \ {x} : KeyLess(x, y)
       IN  <<m>> \o SortStrings(S \ {m})

HeaderLine(key, n) == [k |-> "header", key |-> key, n |-> n, url |-> NoURL]

UrlLine(u) == [k |-> "url", key |-> GroupKey(NoURL), n |-> 0, url |-> u]

GroupLines(findings, key) ==
  IF Len(findings[key]) = 0 THEN <<>>
  ELSE <<HeaderLine(key, Len(findings[key]))>>
       \o [i \in 1..Len(findings[key]) |-> UrlLine(findings[key][i].url)]

RECURSIVE ConcatGroups(_, _)
ConcatGroups(findings, keys) ==
  IF keys = <<>> THEN <<>>
  ELSE GroupLines(findings, Head(keys)) \o ConcatGroups(findings, Tail(keys))

\* Writer.writeSortedBinaryFindings: what is written to the binary file
writeSortedBinaryFindings(findings) ==
  ConcatGroups(findings, SortStrings(DOMAIN findings))

WriterCloseAgain(o) ==
  [o EXCEPT !.binaryFile = @ \o writeSortedBinaryFindings(o.binaryFindings),
            !.closed = TRUE]

\* what Writer.Close returns: the first flush error, if a buffered writer is
\* still there and holds an error; nil when the writers are nil already
CloseResult(o) ==
  IF ~o.closed /\ (o.rawErr \/ o.filteredErr) THEN "error" ELSE "nil"

\* Writer.Close: flush raw and filtered, write the grouped findings; the buffered
\* writers are nil afterwards, so a second Close writes nothing
WriterClose(o) ==
  IF o.closed THEN o
  ELSE [o EXCEPT !.binaryFile = @ \o writeSortedBinaryFindings(o.binaryFindings),
                 !.closed = TRUE]

(***************************************************************************)
(* filter.Blocklist                                                        *)
(***************************************************************************)
gBL == <<blHosts, blFile, saveChan, stopChan, saver, timer, clock>>

gSupp == <<skipCounters, blockedHosts, skippedHosts>>

gDisp == <<scen, mainPc, hostChan, processedCount>>

\* Blocklist.IsBlocked
IsBlocked(h) == cfg.enableBlocklist /\ h \in DOMAIN blHosts

\* the non-blocking send on saveChan (capacity 1): a signal is dropped when
\* one is already buffered
SignalSave(ch) == IF ch = 0 THEN 1 ELSE ch

IsNewAlways(h) == cfg.enableBlocklist

\* AddHost inserts h: the blocklist is enabled and b.hosts has no entry for h
IsNew(h) == cfg.enableBlocklist /\ h \notin DOMAIN blHosts

HoldsReadLockDuringIO(s) == s.pc \in {"copy", "finalCopy", "save", "finalSave"}

\* Save holds b.mu from RLock to RUnlock, that is while it copies the map
HoldsReadLock(s) == s.pc \in {"copy", "finalCopy"}

AddHostFresh(h) ==
  IF cfg.enableBlocklist /\ h \notin DOMAIN blHosts
  THEN /\ blHosts' = Put(EmptyFn, h, clock)
       /\ clock' = clock + 1
       /\ saveChan' = SignalSave(saveChan)
  ELSE UNCHANGED <<blHosts, clock, saveChan>>

\* Blocklist.AddHost: b.mu.Lock() waits while Save holds the read lock
AddHost(h) ==
  /\ cfg.enableBlocklist => ~HoldsReadLock(saver)
  /\ IF IsNew(h)
     THEN /\ blHosts' = Put(blHosts, h, clock)
          /\ clock' = clock + 1
          /\ saveChan' = SignalSave(saveChan)
     ELSE UNCHANGED <<blHosts, clock, saveChan>>

\* Instants are counted in ticks; time.RFC3339 holds whole seconds only
TicksPerSecond == 2

\* timestamp.Format(time.RFC3339), read back: the fraction of the second is cut
Format(t) == t - (t % TicksPerSecond)

\* what Blocklist.Save writes: the copy of the map taken under the read lock,
\* each timestamp formatted
FileOf(snapshot) ==
  [exists |-> TRUE, entries |-> [h \in DOMAIN snapshot |-> Format(snapshot[h])]]

\* saveWorker, case <-b.saveChan
saveWorkerSignal ==
  /\ saver.pc = "select"
  /\ saveChan > 0
  /\ saveChan' = saveChan - 1
  /\ IF ~saver.pendingSave
     THEN /\ timer' = "running"
          /\ saver' = [saver EXCEPT !.pendingSave = TRUE]
     ELSE UNCHANGED <<timer, saver>>
  /\ UNCHANGED <<gDisp, wk, totalLinksCount, gSupp, stats, out, blHosts, blFile,
                 stopChan, clock, log>>

\* the debounce timer expires and sends on saveTimer.C
TimerExpires ==
  /\ timer = "running"
  /\ timer' = "fired"
  /\ UNCHANGED <<gDisp, wk, totalLinksCount, gSupp, stats, out, blHosts, blFile,
                 saveChan, stopChan, saver, clock, log>>

\* saveWorker, case <-saveTimer.C: Save takes the read lock and copies the map
saveWorkerTimer ==
  /\ saver.pc = "select"
  /\ timer = "fired"
  /\ timer' = "stopped"
  /\ IF saver.pendingSave
     THEN saver' = [saver EXCEPT !.pc = "copy", !.snapshot = blHosts]
     ELSE UNCHANGED saver
  /\ UNCHANGED <<gDisp, wk, totalLinksCount, gSupp, stats, out, blHosts, blFile,
                 saveChan, stopChan, clock, log>>

\* b.mu.RUnlock() in Save, before the file is created
saveUnlock ==
  /\ HoldsReadLock(saver)
  /\ saver' = [saver EXCEPT !.pc = IF @ = "copy" THEN "save" ELSE "finalSave"]
  /\ UNCHANGED <<gDisp, wk, totalLinksCount, gSupp, stats, out, blHosts, blFile,
                 saveChan, stopChan, timer, clock, log>>

\* Save writes the file from the copy, without the lock; pendingSave = false
saveWorkerWrite ==
  /\ saver.pc = "save"
  /\ blFile' = FileOf(saver.snapshot)
  /\ saver' = [saver EXCEPT !.pc = "select", !.pendingSave = FALSE, !.snapshot = EmptyFn]
  /\ UNCHANGED <<gDisp, wk, totalLinksCount, gSupp, stats, out, blHosts,
                 saveChan, stopChan, timer, clock, log>>

saveWorkerStopUnasked ==
  /\ saver.pc = "select"
  /\ timer' = IF timer = "running" THEN "stopped" ELSE timer
  /\ IF saver.pendingSave
     THEN saver' = [saver EXCEPT !.pc = "finalCopy", !.snapshot = blHosts]
     ELSE saver' = [saver EXCEPT !.pc = "exited"]
  /\ UNCHANGED <<gDisp, wk, totalLinksCount, gSupp, stats, out, blHosts, blFile,
                 saveChan, stopChan, clock, log>>

\* saveWorker, case <-b.stopChan: stop the timer, final Save only if pendingSave
saveWorkerStop ==
  /\ saver.pc = "select"
  /\ stopChan
  /\ timer' = IF timer = "running" THEN "stopped" ELSE timer
  /\ IF saver.pendingSave
     THEN saver' = [saver EXCEPT !.pc = "finalCopy", !.snapshot = blHosts]
     ELSE saver' = [saver EXCEPT !.pc = "exited"]
  /\ UNCHANGED <<gDisp, wk, totalLinksCount, gSupp, stats, out, blHosts, blFile,
                 saveChan, stopChan, clock, log>>

\* the final Save writes the file; the worker returns (saveWg.Done)
saveWorkerFinalWrite ==
  /\ saver.pc = "finalSave"
  /\ blFile' = FileOf(saver.snapshot)
  /\ saver' = [saver EXCEPT !.pc = "exited", !.snapshot = EmptyFn]
  /\ UNCHANGED <<gDisp, wk, totalLinksCount, gSupp, stats, out, blHosts,
                 saveChan, stopChan, timer, clock, log>>

(***************************************************************************)
(* Worker.ProcessHosts and the run function of main                        *)
(***************************************************************************)
\* totalHosts is set, the channel is filled and closed, the workers are started
ProcessHosts ==
  /\ mainPc = "start"
  /\ stats' = [stats EXCEPT !.totalHosts = Len(Hosts)]
  /\ hostChan' = [i \in 1..Len(Hosts) |-> i]
  /\ wk' = [w \in Workers |-> [IdleWorker EXCEPT !.pc = "recv"]]
  /\ mainPc' = "wait"
  /\ UNCHANGED <<scen, processedCount, totalLinksCount, gSupp, out, gBL, log>>

BlocklistCloseEarly ==
  /\ mainPc = "wait"
  /\ hostChan = <<>>
  /\ IF cfg.enableBlocklist
     THEN stopChan' = TRUE /\ mainPc' = "closing"
     ELSE UNCHANGED stopChan /\ mainPc' = "returned"
  /\ UNCHANGED <<scen, wk, hostChan, processedCount, totalLinksCount, gSupp, stats, out,
                 blHosts, blFile, saveChan, saver, timer, clock, log>>

\* wg.Wait() has returned; Blocklist.Close closes stopChan
BlocklistClose ==
  /\ mainPc = "wait"
  /\ \A w \in Workers : wk[w].pc = "exit"
  /\ IF cfg.enableBlocklist
     THEN stopChan' = TRUE /\ mainPc' = "closing"
     ELSE UNCHANGED stopChan /\ mainPc' = "returned"
  /\ UNCHANGED <<scen, wk, hostChan, processedCount, totalLinksCount, gSupp, stats, out,
                 blHosts, blFile, saveChan, saver, timer, clock, log>>

\* saveWg.Wait() has returned: Close and ProcessHosts return
ProcessHostsReturn ==
  /\ mainPc = "closing"
  /\ saver.pc = "exited"
  /\ mainPc' = "returned"
  /\ UNCHANGED <<scen, wk, hostChan, processedCount, totalLinksCount, gSupp, stats, out,
                 gBL, log>>

\* GetStats; the summary is written to raw, and the warning when writeErrors > 0;
\* the results of these writes are not looked at
WriteSummary ==
  /\ mainPc = "returned"
  /\ \E ok \in WriteOutcomes(out.rawErr, out.disk) :
       LET o == TryWriteRaw(out, RawLine("summary", NoURL, "", 0), ok)
       IN  out' = IF stats.writeErrors > 0
                  THEN TryWriteRaw(o, RawLine("warning", NoURL, "", 0), ok)
                  ELSE o
  /\ mainPc' = "summarized"
  /\ UNCHANGED <<scen, wk, hostChan, processedCount, totalLinksCount, gSupp, stats,
                 gBL, log>>

CloseWriterEarly ==
  /\ mainPc \in {"returned", "summarized"}
  /\ out' = WriterClose(out)
  /\ mainPc' = IF mainPc = "summarized" THEN "done" ELSE mainPc
  /\ ~out.closed \/ mainPc = "summarized"
  /\ UNCHANGED <<scen, wk, hostChan, processedCount, totalLinksCount, gSupp, stats,
                 gBL, log>>

\* defer writer.Close()
CloseWriter ==
  /\ mainPc = "summarized"
  /\ out' = WriterClose(out)
  /\ mainPc' = "done"
  /\ UNCHANGED <<scen, wk, hostChan, processedCount, totalLinksCount, gSupp, stats,
                 gBL, log>>

(***************************************************************************)
(* The worker goroutines: Worker.processHost                               *)
(***************************************************************************)
hostURL(w) == Hosts[wk[w].host]

baseHost(w) == extractBaseHost(hostURL(w))

htmlContent(w) == Surface(scen, hostURL(w)).body

\* processHost has returned: the locals are gone, the worker reads the channel
Returned == [IdleWorker EXCEPT !.pc = "recv"]

Goto(w, pc) == wk' = [wk EXCEPT ![w].pc = pc]

Return(w) == wk' = [wk EXCEPT ![w] = Returned]

AfterWriteIgnore(me, ok) == me

\* if err := w.writer.Write...(...); err != nil: the worker goes on to count the
\* error and then to the step it would have taken after a write that succeeded
AfterWrite(me, ok) == IF ok THEN me ELSE [me EXCEPT !.pc = "wErr", !.ret = me.pc]

WriteFailed(l, ok) == IF ok THEN l ELSE [l EXCEPT !.failed = @ + 1]

\* w.stats.writeErrors++ under the lock of the stats
CountWriteError(w) ==
  /\ wk[w].pc = "wErr"
  /\ stats' = [stats EXCEPT !.writeErrors = @ + 1]
  /\ wk' = [wk EXCEPT ![w].pc = wk[w].ret, ![w].ret = ""]
  /\ UNCHANGED <<gDisp, totalLinksCount, gSupp, out, gBL, log>>

\* a receive from the closed, buffered hostChan
DequeueTwo(ch) ==
  [host |-> Head(ch), rest |-> IF Len(ch) > 1 THEN Tail(Tail(ch)) ELSE Tail(ch)]

Dequeue(ch) == [host |-> Head(ch), rest |-> Tail(ch)]

\* the host is in the persistent blocklist or in blockedHosts by its base
\* hostname, or in skippedHosts by its URL
Suppressed(u) ==
  \/ IsBlocked(extractBaseHost(u))
  \/ extractBaseHost(u) \in blockedHosts
  \/ u \in skippedHosts

\* for host := range hostChan
Receive(w) ==
  /\ wk[w].pc = "recv"
  /\ IF hostChan = <<>>
     THEN /\ Goto(w, "exit")
          /\ UNCHANGED <<hostChan, log>>
     ELSE /\ wk' = [wk EXCEPT ![w].pc = "pre1", ![w].host = Dequeue(hostChan).host]
          /\ hostChan' = Dequeue(hostChan).rest
          /\ log' = [log EXCEPT !.handed[Dequeue(hostChan).host] = @ + 1,
                                !.suppressed = @ \cup
                                  (IF Suppressed(Hosts[Dequeue(hostChan).host])
                                   THEN {Dequeue(hostChan).host} ELSE {})]
  /\ UNCHANGED <<scen, mainPc, processedCount, totalLinksCount, gSupp, stats, out, gBL>>

\* atomic.AddInt64(&w.processedCount, 1); w.blocklist.IsBlocked(baseHost)
PreflightBlocklist(w) ==
  /\ wk[w].pc = "pre1"
  /\ processedCount' = processedCount + 1
  /\ IF IsBlocked(baseHost(w)) THEN Return(w) ELSE Goto(w, "pre2")
  /\ UNCHANGED <<scen, mainPc, hostChan, totalLinksCount, gSupp, stats, out, gBL, log>>

PreflightBlockedHostsOff(w) ==
  /\ wk[w].pc = "pre2"
  /\ Goto(w, "pre3")
  /\ UNCHANGED <<gDisp, totalLinksCount, gSupp, stats, out, gBL, log>>

\* w.blockedHosts.Load(baseHost)
PreflightBlockedHosts(w) ==
  /\ wk[w].pc = "pre2"
  /\ IF baseHost(w) \in blockedHosts THEN Return(w) ELSE Goto(w, "pre3")
  /\ UNCHANGED <<gDisp, totalLinksCount, gSupp, stats, out, gBL, log>>

\* w.skippedHosts.Load(host.URL)
PreflightSkippedHosts(w) ==
  /\ wk[w].pc = "pre3"
  /\ IF hostURL(w) \in skippedHosts THEN Return(w) ELSE Goto(w, "fetch")
  /\ UNCHANGED <<gDisp, totalLinksCount, gSupp, stats, out, gBL, log>>

Fetched(u, by, root) == [url |-> u, by |-> by, root |-> root]

FetchHostIgnoreError(w) ==
  /\ wk[w].pc = "fetch"
  /\ log' = [log EXCEPT !.fetched = @ \cup {Fetched(hostURL(w), wk[w].host, TRUE)}]
  /\ LET r == Surface(scen, hostURL(w))
     IN  IF ~r.err /\ ~r.online THEN Return(w) ELSE Goto(w, "online")
  /\ UNCHANGED <<gDisp, totalLinksCount, gSupp, stats, out, gBL>>

\* w.client.CheckHostAndFetch(host); return on err != nil and on !online
FetchHost(w) ==
  /\ wk[w].pc = "fetch"
  /\ log' = [log EXCEPT !.fetched = @ \cup {Fetched(hostURL(w), wk[w].host, TRUE)}]
  /\ LET r == Surface(scen, hostURL(w))
     IN  IF r.err \/ ~r.online THEN Return(w) ELSE Goto(w, "online")
  /\ UNCHANGED <<gDisp, totalLinksCount, gSupp, stats, out, gBL>>

CountOnlineOnly(w) ==
  /\ wk[w].pc = "online"
  /\ stats' = [stats EXCEPT !.onlineHosts = @ + 1]
  /\ wk' = [wk EXCEPT ![w].pc = IF cfg.check /\ cfg.target # Seg("", "") THEN "probe" ELSE "dir1"]
  /\ UNCHANGED <<scen, mainPc, hostChan, processedCount, totalLinksCount, skipCounters,
                 blockedHosts, skippedHosts, out, blHosts, blFile, saveChan, stopChan,
                 saver, timer, clock, log>>

\* w.stats.onlineHosts++
CountOnline(w) ==
  /\ wk[w].pc = "online"
  /\ stats' = [stats EXCEPT !.onlineHosts = @ + 1]
  /\ Goto(w, "rawHost")
  /\ UNCHANGED <<gDisp, totalLinksCount, gSupp, out, gBL, log>>

\* w.writer.WriteRawOutput(host.URL)
WriteHostLine(w) ==
  /\ wk[w].pc = "rawHost"
  /\ \E ok \in WriteOutcomes(out.rawErr, out.disk) :
       /\ out' = TryWriteRaw(out, RawLine("host", hostURL(w), "", wk[w].host), ok)
       /\ wk' = [wk EXCEPT ![w] =
                   AfterWrite([wk[w] EXCEPT !.pc = IF targetedCheckMode THEN "probe" ELSE "dir1"],
                              ok)]
       /\ log' = WriteFailed(log, ok)
  /\ UNCHANGED <<gDisp, totalLinksCount, gSupp, stats, gBL>>

Probed(u, by, kind) == [url |-> u, by |-> by, kind |-> kind]

\* binaryURL := fmt.Sprintf("%s/%s", host.URL, w.targetFileName)
binaryURL(w) == [hostURL(w) EXCEPT !.path = Append(@, cfg.target), !.slash = FALSE]

\* w.fileChecker.CheckSpecificFile(host.URL, w.targetFileName)
TargetedProbe(w) ==
  /\ wk[w].pc = "probe"
  /\ LET r == CheckSpecificFile(scen, hostURL(w), cfg.target)
     IN  /\ log' = [log EXCEPT !.probed = @ \cup
                       {Probed(SpecificFileURL(hostURL(w), cfg.target), wk[w].host, "GET")}]
         /\ IF ~r.err /\ r.found
            THEN wk' = [wk EXCEPT ![w].pc = "tRaw", ![w].ct = r.ct]
            ELSE Goto(w, "dir1")
  /\ UNCHANGED <<gDisp, totalLinksCount, gSupp, stats, out, gBL>>

\* WriteRawOutput("Found binary file: ... with Content-Type: ...")
TargetWriteRaw(w) ==
  /\ wk[w].pc = "tRaw"
  /\ \E ok \in WriteOutcomes(out.rawErr, out.disk) :
       /\ out' = TryWriteRaw(out, RawLine("binary", binaryURL(w), wk[w].ct, wk[w].host), ok)
       /\ wk' = [wk EXCEPT ![w] = AfterWrite([wk[w] EXCEPT !.pc = "tBin"], ok)]
       /\ log' = WriteFailed(log, ok)
  /\ UNCHANGED <<gDisp, totalLinksCount, gSupp, stats, gBL>>

\* WriteBinaryOutput(binaryLine)
TargetWriteBinary(w) ==
  /\ wk[w].pc = "tBin"
  /\ LET r == WriteBinaryOutput(out.binaryFindings, SplitLine(binaryURL(w), wk[w].ct))
     IN  /\ out' = [out EXCEPT !.binaryFindings = r.findings]
         /\ wk' = [wk EXCEPT ![w] = AfterWrite([wk[w] EXCEPT !.pc = "tStat"], ~r.err)]
         /\ log' = WriteFailed(log, ~r.err)
  /\ UNCHANGED <<gDisp, totalLinksCount, gSupp, stats, gBL>>

TargetCountNoFlag(w) ==
  /\ wk[w].pc = "tStat"
  /\ stats' = [stats EXCEPT !.checkedFiles = @ + 1, !.binaryFilesFound = @ + 1]
  /\ Goto(w, "dir1")
  /\ UNCHANGED <<gDisp, totalLinksCount, gSupp, out, gBL, log>>

\* checkedFiles++ and binaryFilesFound++ under one lock; foundTargetFile = true,
\* so directory processing is skipped and processHost returns
TargetCount(w) ==
  /\ wk[w].pc = "tStat"
  /\ stats' = [stats EXCEPT !.checkedFiles = @ + 1, !.binaryFilesFound = @ + 1]
  /\ Return(w)
  /\ UNCHANGED <<gDisp, totalLinksCount, gSupp, out, gBL, log>>

(***************************************************************************)
(* Worker.processDirectoryContent                                          *)
(***************************************************************************)
UseRecursiveFromOne(c) == c.recursive /\ c.maxDepth >= 1

\* recursive && maxDepth > 1
UseRecursive(c) == c.recursive /\ c.maxDepth > 1

\* processDirectoryContent is called: w.blocklist.IsBlocked(baseHost)
DirCheckBlocklist(w) ==
  /\ wk[w].pc = "dir1"
  /\ IF IsBlocked(baseHost(w)) THEN Return(w) ELSE Goto(w, "dir2")
  /\ log' = [log EXCEPT !.dirs = @ \cup {wk[w].host},
                        !.dirBlocked = @ \cup
                          (IF IsBlocked(baseHost(w)) \/ baseHost(w) \in blockedHosts
                           THEN {wk[w].host} ELSE {})]
  /\ UNCHANGED <<gDisp, totalLinksCount, gSupp, stats, out, gBL>>

\* w.blockedHosts.Load(baseHost), then IsDirectoryListing and the choice between
\* ScanHostRecursive and ScanHost
DirCheckBlockedHosts(w) ==
  /\ wk[w].pc = "dir2"
  /\ IF baseHost(w) \in blockedHosts \/ ~IsDirectoryListing(htmlContent(w))
     THEN Return(w)
     ELSE IF UseRecursive(cfg)
          THEN Goto(w, "reset")
          ELSE wk' = [wk EXCEPT ![w].pc = "files", ![w].fi = 1,
                                 ![w].allLinks = extractLinks(hostURL(w), htmlContent(w))]
  /\ UNCHANGED <<gDisp, totalLinksCount, gSupp, stats, out, gBL, log>>

(***************************************************************************)
(* DirectoryScanner.ScanHostRecursive / scanRecursive.  The recursion is   *)
(* kept as the stack of its calls; the top frame is the last.              *)
(***************************************************************************)
Frame(u, depth) == [url |-> u, depth |-> depth, dirs |-> <<>>]

Top(w) == Last(wk[w].stack)

\* scanRecursive returns: back in the caller's loop over its directories, or
\* ScanHostRecursive returns allLinks to processDirectoryContent
Pop(me) ==
  IF Len(me.stack) = 1
  THEN [me EXCEPT !.stack = <<>>, !.visited = {}, !.pc = "files", !.fi = 1]
  ELSE [me EXCEPT !.stack = Front(@), !.pc = "loop"]

\* atomic.StoreInt64(&ds.totalLinksCount, 0); visited, allLinks; first call
ResetCounter(w) ==
  /\ wk[w].pc = "reset"
  /\ totalLinksCount' = 0
  /\ wk' = [wk EXCEPT ![w].pc = "scan", ![w].stack = <<Frame(hostURL(w), 0)>>,
                       ![w].visited = {}, ![w].allLinks = <<>>, ![w].trip = 0]
  /\ UNCHANGED <<gDisp, gSupp, stats, out, gBL, log>>

OverBudgetOnce(c, currentCount) ==
  c.maxTotalLinks > 0 /\ currentCount > c.maxTotalLinks /\ skipCounters = EmptyFn

\* cfg.MaxTotalLinks > 0 && int(currentCount) > cfg.MaxTotalLinks
OverBudget(c, currentCount) == c.maxTotalLinks > 0 /\ currentCount > c.maxTotalLinks

\* the per-directory link limit: links[:cfg.MaxLinksPerDirectory]
LimitLinks(c, links) ==
  IF c.maxLinksPerDirectory > 0 /\ Len(links) > c.maxLinksPerDirectory
  THEN SubSeq(links, 1, c.maxLinksPerDirectory)
  ELSE links

IsFile(u) == ~isDirectory(u)

VisitedOrDeepNoVisited(visited, u, depth, maxDepth) == depth >= maxDepth

\* visited[baseURL] || currentDepth >= maxDepth
VisitedOrDeep(visited, u, depth, maxDepth) == u \in visited \/ depth >= maxDepth

Scanned(u, by, depth) == [url |-> u, by |-> by, depth |-> depth]

\* entry of scanRecursive: the load of the counter and the budget check, the
\* visited / depth check, link extraction, the per-directory limit, the
\* separation of files and directories and the append to allLinks
ScanEnter(w) ==
  /\ wk[w].pc = "scan"
  /\ LET me == wk[w]
         f == Top(w)
         links == LimitLinks(cfg, extractLinks(f.url, Surface(scen, f.url).body))
         files == SelectSeq(links, IsFile)
         directories == SelectSeq(links, isDirectory)
     IN  IF OverBudget(cfg, totalLinksCount)
         THEN Goto(w, "skipInc") /\ UNCHANGED log
         ELSE IF VisitedOrDeep(me.visited, f.url, f.depth, cfg.maxDepth)
         THEN wk' = [wk EXCEPT ![w] = Pop(me)] /\ UNCHANGED log
         ELSE /\ log' = [log EXCEPT !.scanned = Append(@, Scanned(f.url, me.host, f.depth))]
              /\ wk' = [wk EXCEPT ![w].pc = "add",
                                ![w].visited = @ \cup {f.url},
                                ![w].stack[Len(me.stack)].dirs = directories,
                                ![w].allLinks = @ \o files,
                                ![w].nfiles = Len(files),
                                ![w].trip = IF /\ cfg.maxTotalLinks > 0
                                               /\ Len(me.allLinks) <= cfg.maxTotalLinks
                                               /\ Len(me.allLinks) + Len(files) > cfg.maxTotalLinks
                                            THEN Len(files) ELSE @]
  /\ UNCHANGED <<gDisp, totalLinksCount, gSupp, stats, out, gBL>>

\* atomic.AddInt64(&ds.totalLinksCount, int64(len(files)))
AddLinksCount(w) ==
  /\ wk[w].pc = "add"
  /\ totalLinksCount' = totalLinksCount + wk[w].nfiles
  /\ wk' = [wk EXCEPT ![w].pc = "loop", ![w].nfiles = 0]
  /\ UNCHANGED <<gDisp, gSupp, stats, out, gBL, log>>

\* the loop over directories: fetch the next one, recurse when it is online and a
\* listing; when the loop ends (or currentDepth+1 >= maxDepth) the call returns
ScanLoop(w) ==
  /\ wk[w].pc = "loop"
  /\ LET me == wk[w]
         f == Top(w)
         n == Len(me.stack)
     IN  IF f.depth + 1 < cfg.maxDepth /\ f.dirs # <<>>
         THEN LET dirURL == Head(f.dirs)
                  r == Surface(scen, dirURL)
              IN  /\ log' = [log EXCEPT
                            !.fetched = @ \cup {Fetched(dirURL, me.host, FALSE)},
                            !.descents = @ \cup {Scanned(dirURL, me.host, f.depth + 1)}]
                  /\ IF ~r.err /\ r.online /\ IsDirectoryListing(r.body)
                     THEN wk' = [wk EXCEPT ![w].pc = "scan",
                                   ![w].stack = Append([me.stack EXCEPT ![n].dirs = Tail(@)],
                                                       Frame(dirURL, f.depth + 1))]
                     ELSE wk' = [wk EXCEPT ![w].stack[n].dirs = Tail(@)]
         ELSE /\ wk' = [wk EXCEPT ![w] = Pop(me)]
              /\ UNCHANGED log
  /\ UNCHANGED <<gDisp, totalLinksCount, gSupp, stats, out, gBL>>

(***************************************************************************)
(* skipCallback(baseURL), the closure of processDirectoryContent           *)
(***************************************************************************)
skipBase(w) == extractBaseHost(Top(w).url)

Counter(h) == IF h \in DOMAIN skipCounters THEN skipCounters[h] ELSE 0

ShouldBlockAbove(c, newSkipCount) ==
  c.maxSkipsBeforeBlock > 0 /\ newSkipCount > c.maxSkipsBeforeBlock

\* w.config.MaxSkipsBeforeBlock > 0 && newSkipCount >= MaxSkipsBeforeBlock
ShouldBlock(c, newSkipCount) ==
  c.maxSkipsBeforeBlock > 0 /\ newSkipCount >= c.maxSkipsBeforeBlock

\* skipCounters.LoadOrStore(baseHost, new(int64)); atomic.AddInt64(ptr, 1)
SkipCount(w) ==
  /\ wk[w].pc = "skipInc"
  /\ skipCounters' = Put(skipCounters, skipBase(w), Counter(skipBase(w)) + 1)
  /\ IF ShouldBlock(cfg, Counter(skipBase(w)) + 1)
     THEN Goto(w, "skipBlock")
     ELSE wk' = [wk EXCEPT ![w] = Pop(wk[w])]
  /\ UNCHANGED <<gDisp, totalLinksCount, blockedHosts, skippedHosts, stats, out, gBL, log>>

\* w.blockedHosts.Store(baseHost, true)
SkipBlock(w) ==
  /\ wk[w].pc = "skipBlock"
  /\ blockedHosts' = blockedHosts \cup {skipBase(w)}
  /\ Goto(w, "skipAdd")
  /\ UNCHANGED <<gDisp, totalLinksCount, skipCounters, skippedHosts, stats, out, gBL, log>>

\* a save is pending and its debounce timer is no longer running: the window
\* has expired and its Save has not returned yet
AfterExpiry == saver.pendingSave /\ timer # "running"

\* w.blocklist.AddHost(baseHost)
SkipAddHost(w) ==
  /\ wk[w].pc = "skipAdd"
  /\ AddHost(skipBase(w))
  /\ log' = [log EXCEPT !.added = @ \cup {skipBase(w)},
                        !.late = @ \cup
                          (IF AfterExpiry /\ IsNew(skipBase(w))
                           THEN {skipBase(w)} ELSE {})]
  /\ Goto(w, "skipMark")
  /\ UNCHANGED <<gDisp, totalLinksCount, gSupp, stats, out, blFile, stopChan, saver, timer>>

\* w.skippedHosts.Store(host.URL, true); the callback and scanRecursive return
SkipMark(w) ==
  /\ wk[w].pc = "skipMark"
  /\ skippedHosts' = skippedHosts \cup {hostURL(w)}
  /\ wk' = [wk EXCEPT ![w] = Pop(wk[w])]
  /\ UNCHANGED <<gDisp, totalLinksCount, skipCounters, blockedHosts, stats, out, gBL, log>>

(***************************************************************************)
(* Worker.processFoundFile and checkFileContent, for each URL of fileURLs  *)
(***************************************************************************)
fileURL(w) == wk[w].allLinks[wk[w].fi]

IsDuplicateNever(foundUrls, u) == FALSE

\* foundUrls[fileURL]
IsDuplicate(foundUrls, u) == u \in foundUrls

\* the first index from i on whose URL is not in foundUrls; Len + 1 when none
RECURSIVE NextFresh(_, _, _)
NextFresh(links, i, foundUrls) ==
  IF i > Len(links) THEN i
  ELSE IF IsDuplicate(foundUrls, links[i]) THEN NextFresh(links, i + 1, foundUrls)
  ELSE i

\* processFoundFile of the current file is over: the loop goes on
NextFile(me) == [me EXCEPT !.pc = "files", !.fi = @ + 1, !.ct = ""]

\* the duplicates are passed over; foundUrls[fileURL] = true; totalFiles++.
\* When fileURLs is used up processDirectoryContent and processHost return.
CountFile(w) ==
  /\ wk[w].pc = "files"
  /\ LET me == wk[w]
         j == NextFresh(me.allLinks, me.fi, me.foundUrls)
     IN  IF j > Len(me.allLinks)
         THEN Return(w) /\ UNCHANGED stats
         ELSE /\ wk' = [wk EXCEPT ![w].pc = "fRaw", ![w].fi = j,
                                   ![w].foundUrls = @ \cup {me.allLinks[j]}]
              /\ stats' = [stats EXCEPT !.totalFiles = @ + 1]
  /\ UNCHANGED <<gDisp, totalLinksCount, gSupp, out, gBL, log>>

\* WriteRawOutput("Found file: " + fileURL); then w.filter.ShouldFilter(fileURL)
FileWriteRaw(w) ==
  /\ wk[w].pc = "fRaw"
  /\ \E ok \in WriteOutcomes(out.rawErr, out.disk) :
       /\ out' = TryWriteRaw(out, RawLine("file", fileURL(w), "", wk[w].host), ok)
       /\ wk' = [wk EXCEPT ![w] =
                   AfterWrite(IF ShouldFilter(cfg.filters, fileURL(w))
                              THEN [wk[w] EXCEPT !.pc = "fFiltStat"]
                              ELSE NextFile(wk[w]),
                              ok)]
       /\ log' = WriteFailed(log, ok)
  /\ UNCHANGED <<gDisp, totalLinksCount, gSupp, stats, gBL>>

\* w.stats.filteredFiles++
FileCountFiltered(w) ==
  /\ wk[w].pc = "fFiltStat"
  /\ stats' = [stats EXCEPT !.filteredFiles = @ + 1]
  /\ Goto(w, "fFilt")
  /\ UNCHANGED <<gDisp, totalLinksCount, gSupp, out, gBL, log>>

\* WriteFilteredOutput(fileURL); then checkEnabled && fileChecker != nil && ShouldCheck
FileWriteFiltered(w) ==
  /\ wk[w].pc = "fFilt"
  /\ \E ok \in WriteOutcomes(out.filteredErr, out.disk) :
       /\ out' = TryWriteFiltered(out, RawLine("filtered", fileURL(w), "", wk[w].host), ok)
       /\ wk' = [wk EXCEPT ![w] =
                   AfterWrite(IF ShouldCheck(cfg, fileURL(w))
                              THEN [wk[w] EXCEPT !.pc = "cStat"]
                              ELSE NextFile(wk[w]),
                              ok)]
       /\ log' = WriteFailed(log, ok)
  /\ UNCHANGED <<gDisp, totalLinksCount, gSupp, stats, gBL>>

CheckCountMissing(w) ==
  /\ wk[w].pc = "cStat"
  /\ wk' = [wk EXCEPT ![w].pc = "cProbe"]
  /\ UNCHANGED <<scen, mainPc, hostChan, processedCount, totalLinksCount, skipCounters,
                 blockedHosts, skippedHosts, stats, out, blHosts, blFile, saveChan,
                 stopChan, saver, timer, clock, log>>

\* checkFileContent: w.stats.checkedFiles++
CheckCount(w) ==
  /\ wk[w].pc = "cStat"
  /\ stats' = [stats EXCEPT !.checkedFiles = @ + 1]
  /\ Goto(w, "cProbe")
  /\ UNCHANGED <<gDisp, totalLinksCount, gSupp, out, gBL, log>>

\* w.fileChecker.CheckFileURL(fileURL)
CheckProbe(w) ==
  /\ wk[w].pc = "cProbe"
  /\ LET r == CheckFileURL(scen, fileURL(w))
     IN  /\ log' = [log EXCEPT !.probed = @ \cup {Probed(fileURL(w), wk[w].host, "HEAD")}]
         /\ IF ~r.err /\ r.found
            THEN wk' = [wk EXCEPT ![w].pc = "cRaw", ![w].ct = r.ct]
            ELSE wk' = [wk EXCEPT ![w] = NextFile(wk[w])]
  /\ UNCHANGED <<gDisp, totalLinksCount, gSupp, stats, out, gBL>>

\* WriteRawOutput("Found binary file: ... with Content-Type: ...")
CheckWriteRaw(w) ==
  /\ wk[w].pc = "cRaw"
  /\ \E ok \in WriteOutcomes(out.rawErr, out.disk) :
       /\ out' = TryWriteRaw(out, RawLine("binary", fileURL(w), wk[w].ct, wk[w].host), ok)
       /\ wk' = [wk EXCEPT ![w] = AfterWrite([wk[w] EXCEPT !.pc = "cBin"], ok)]
       /\ log' = WriteFailed(log, ok)
  /\ UNCHANGED <<gDisp, totalLinksCount, gSupp, stats, gBL>>

\* WriteBinaryOutput(binaryLine)
CheckWriteBinary(w) ==
  /\ wk[w].pc = "cBin"
  /\ LET r == WriteBinaryOutput(out.binaryFindings, SplitLine(fileURL(w), wk[w].ct))
     IN  /\ out' = [out EXCEPT !.binaryFindings = r.findings]
         /\ wk' = [wk EXCEPT ![w] = AfterWrite([wk[w] EXCEPT !.pc = "cBinStat"], ~r.err)]
         /\ log' = WriteFailed(log, ~r.err)
  /\ UNCHANGED <<gDisp, totalLinksCount, gSupp, stats, gBL>>

\* w.stats.binaryFilesFound++
CheckCountBinary(w) ==
  /\ wk[w].pc = "cBinStat"
  /\ stats' = [stats EXCEPT !.binaryFilesFound = @ + 1]
  /\ wk' = [wk EXCEPT ![w] = NextFile(wk[w])]
  /\ UNCHANGED <<gDisp, totalLinksCount, gSupp, out, gBL, log>>

(***************************************************************************)
(* The run                                                                 *)
(***************************************************************************)
WorkerStep(w) ==
  \/ Receive(w)
  \/ PreflightBlocklist(w)
  \/ PreflightBlockedHosts(w)
  \/ PreflightSkippedHosts(w)
  \/ FetchHost(w)
  \/ CountOnline(w)
  \/ WriteHostLine(w)
  \/ TargetedProbe(w)
  \/ TargetWriteRaw(w)
  \/ TargetWriteBinary(w)
  \/ TargetCount(w)
  \/ DirCheckBlocklist(w)
  \/ DirCheckBlockedHosts(w)
  \/ ResetCounter(w)
  \/ ScanEnter(w)
  \/ AddLinksCount(w)
  \/ ScanLoop(w)
  \/ SkipCount(w)
  \/ SkipBlock(w)
  \/ SkipAddHost(w)
  \/ SkipMark(w)
  \/ CountFile(w)
  \/ FileWriteRaw(w)
  \/ FileCountFiltered(w)
  \/ FileWriteFiltered(w)
  \/ CheckCount(w)
  \/ CheckProbe(w)
  \/ CheckWriteRaw(w)
  \/ CheckWriteBinary(w)
  \/ CheckCountBinary(w)
  \/ CountWriteError(w)

SaverStep ==
  \/ saveWorkerSignal
  \/ saveWorkerTimer
  \/ saveUnlock
  \/ saveWorkerWrite
  \/ saveWorkerStop
  \/ saveWorkerFinalWrite

MainStep ==
  \/ ProcessHosts
  \/ BlocklistClose
  \/ ProcessHostsReturn
  \/ WriteSummary
  \/ CloseWriter

Next ==
  \/ MainStep
  \/ \E w \in Workers : WorkerStep(w)
  \/ SaverStep
  \/ TimerExpires

Spec == Init /\ [][Next]_vars

\* the same run over a disk on which the writes of some scenarios can fail
FaultyScenarios == {"werr", "target"}

InitFaulty ==
  \E s \in Scenarios :
    InitWith(s, IF s \in FaultyScenarios THEN FaultyWriter ELSE NewWriter)

SpecFaulty == InitFaulty /\ [][Next]_vars

\* goroutines are scheduled fairly; a select with several ready cases picks
\* among them at random, so a case that stays ready is taken in the end
FairSpec ==
  /\ Spec
  /\ WF_vars(MainStep)
  /\ \A w \in Workers : WF_vars(WorkerStep(w))
  /\ WF_vars(SaverStep)

(***************************************************************************)
(* The writer on its own: any sequence of WriteBinaryOutput calls, which   *)
(* the mutex of the Writer serialises, followed by Close.                  *)
(***************************************************************************)
MaxWrites == 4

OctetStream == "application/octet-stream"

Finding(scheme, host, port, name) ==
  <<URL(scheme, host, port, <<Seg(name, "exe")>>, FALSE), OctetStream>>

\* the lines handed to WriteBinaryOutput, as split around " with Content-Type: "
OutLines ==
  { Finding("http", "a.test", 0, "x"),
    Finding("http", "a.test", 0, "y"),
    <<URL("http", "a.test", 0, <<Seg("x", "exe")>>, FALSE), "application/zip">>,
    Finding("http", "a.test", 8080, "x"),
    Finding("http", "a.test.b", 0, "x"),
    Finding("https", "a.test", 0, "x"),
    Finding("http", "b.test", 0, "x"),
    <<BadURL, OctetStream>>,
    <<URL("http", "a.test", 0, <<Seg("z", "exe")>>, FALSE)>>,
    <<URL("http", "a.test", 0, <<Seg("z", "exe")>>, FALSE), OctetStream, OctetStream>> }

\* Close can be called more than once
MaxCloses == 2

\* the writer as it is when the first Close comes: the raw writer may hold the
\* error of an earlier failed write
InitOut == \E e \in BOOLEAN : InitWith("writer", [NewWriter EXCEPT !.rawErr = e])

OutWriteBinary(parts) ==
  /\ ~out.closed
  /\ Len(log.written) < MaxWrites
  /\ out' = [out EXCEPT !.binaryFindings = WriteBinaryOutput(@, parts).findings]
  /\ stats' = [stats EXCEPT !.writeErrors =
                  IF WriteBinaryOutput(out.binaryFindings, parts).err THEN @ + 1 ELSE @]
  /\ log' = [log EXCEPT !.written = Append(@, parts)]
  /\ UNCHANGED <<gDisp, wk, totalLinksCount, gSupp, gBL>>

OutClose ==
  /\ Len(log.closeRet) < MaxCloses
  /\ out' = WriterClose(out)
  /\ log' = [log EXCEPT !.closeRet = Append(@, CloseResult(out))]
  /\ UNCHANGED <<gDisp, wk, totalLinksCount, gSupp, stats, gBL>>

NextOut ==
  \/ \E parts \in OutLines : OutWriteBinary(parts)
  \/ OutClose

SpecOut == InitOut /\ [][NextOut]_vars

(***************************************************************************)
(* The blocklist file on its own: Load of a file, then Save.  A file is    *)
(* the sequence of its lines; a data line is a hostname followed by        *)
(* nothing, by a timestamp time.Parse accepts, or by anything else.        *)
(***************************************************************************)
MaxLines == 3

EmptyLine == [kind |-> "empty", host |-> "", stamp |-> "none", t |-> 0]

CommentLine == [kind |-> "comment", host |-> "", stamp |-> "none", t |-> 0]

HostOnly(h) == [kind |-> "data", host |-> h, stamp |-> "none", t |-> 0]

Stamped(h, t) == [kind |-> "data", host |-> h, stamp |-> "ok", t |-> t]

BadStamp(h) == [kind |-> "data", host |-> h, stamp |-> "bad", t |-> 0]

\* the lines a blocklist file of the model is made of; a timestamp with a
\* fraction of a second (an odd tick) is accepted by time.Parse
BlocklistLines ==
  { EmptyLine, CommentLine, HostOnly("a.test"), Stamped("a.test", 4),
    Stamped("a.test", 3), BadStamp("b.test"), Stamped("b.test", 2) }

BlocklistFiles ==
  UNION {[1..n -> BlocklistLines] : n \in 0..MaxLines}

\* one pass of the scanner loop of Load: empty lines and comments are passed
\* over, hosts[hostname] = the parsed timestamp or time.Now()
LoadLine(hosts, line, now) ==
  IF line.kind # "data" THEN hosts
  ELSE Put(hosts, line.host, IF line.stamp = "ok" THEN line.t ELSE now)

RECURSIVE LoadLines(_, _, _)
LoadLines(hosts, lines, now) ==
  IF lines = <<>> THEN hosts
  ELSE LoadLines(LoadLine(hosts, Head(lines), now), Tail(lines), now)

\* Blocklist.Load on the file as a sequence of lines
LoadFile(hosts, file, now) ==
  IF ~file.exists THEN hosts ELSE LoadLines(hosts, file.lines, now)

\* the orders in which range may visit the keys of a map
Orders(S) ==
  {o \in [1..Cardinality(S) -> S] : \A i, j \in DOMAIN o : o[i] = o[j] => i = j}

\* Blocklist.Save: three comment lines, an empty line, one line per host
SaveLines(hostsCopy, order) ==
  <<CommentLine, CommentLine, CommentLine, EmptyLine>>
  \o [i \in DOMAIN order |-> Stamped(order[i], Format(hostsCopy[order[i]]))]

InitBlocklist ==
  \E lines \in BlocklistFiles, present \in BOOLEAN, now \in {6, 7} :
    /\ present \/ lines = <<>>
    /\ scen = "blocklist"
    /\ mainPc = "new"
    /\ wk = [w \in Workers |-> IdleWorker]
    /\ hostChan = <<>>
    /\ processedCount = 0
    /\ totalLinksCount = 0
    /\ skipCounters = EmptyFn
    /\ blockedHosts = {}
    /\ skippedHosts = {}
    /\ stats = ZeroStats
    /\ out = NewWriter
    /\ blFile = [exists |-> present, lines |-> lines]
    /\ blHosts = EmptyFn
    /\ saveChan = 0
    /\ stopChan = FALSE
    /\ saver = NewSaver(FALSE)
    /\ timer = "stopped"
    /\ clock = now
    /\ log = EmptyLog

\* blocklist.Load(); the lines read are remembered
FileLoad ==
  /\ mainPc = "new"
  /\ blHosts' = LoadFile(blHosts, blFile, clock)
  /\ log' = [log EXCEPT !.written = IF blFile.exists THEN blFile.lines ELSE <<>>]
  /\ mainPc' = "loaded"
  /\ UNCHANGED <<scen, wk, hostChan, processedCount, totalLinksCount, gSupp, stats, out,
                 blFile, saveChan, stopChan, saver, timer, clock>>

\* blocklist.Save(), some time later
FileSave ==
  /\ mainPc = "loaded"
  /\ \E order \in Orders(DOMAIN blHosts) :
       blFile' = [exists |-> TRUE, lines |-> SaveLines(blHosts, order)]
  /\ clock' = clock + 1
  /\ mainPc' = "saved"
  /\ UNCHANGED <<scen, wk, hostChan, processedCount, totalLinksCount, gSupp, stats, out,
                 blHosts, saveChan, stopChan, saver, timer, log>>

NextBlocklist ==
  \/ FileLoad
  \/ FileSave

SpecBlocklist == InitBlocklist /\ [][NextBlocklist]_vars

(***************************************************************************)
(* The locks: the workers, the save worker and the dispatcher as sequences *)
(* of lock and unlock events on the blocklist RWMutex and the mutexes of   *)
(* the Writer, the Stats and the Logger.                                   *)
(***************************************************************************)
MaxCalls == 2

\* the save worker and the dispatcher, numbered after the workers
SaverThread == NumWorkers + 1

MainThread == NumWorkers + 2

Threads == Workers \cup {SaverThread, MainThread}

Lk(m) == [a |-> "Lock", m |-> m]

Un(m) == [a |-> "Unlock", m |-> m]

RLk(m) == [a |-> "RLock", m |-> m]

RUn(m) == [a |-> "RUnlock", m |-> m]

LoggerLogTakesWriter == <<Lk("logger"), Lk("writer"), Un("writer"), Un("logger")>>

\* Logger.log at a level that is not filtered: l.mu.Lock(), defer l.mu.Unlock()
LoggerLog == <<Lk("logger"), Un("logger")>>

\* Blocklist.IsBlocked
IsBlockedLocks == <<RLk("blocklist"), RUn("blocklist")>>

\* Blocklist.AddHost: a host that is present, and a new host with logger.Info
\* before the deferred Unlock
AddHostLocks ==
  {<<Lk("blocklist"), Un("blocklist")>>,
   <<Lk("blocklist")>> \o LoggerLog \o <<Un("blocklist")>>}

\* Blocklist.Save: the copy under the read lock, the file I/O, logger.Info
SaveLocks == <<RLk("blocklist"), RUn("blocklist")>> \o LoggerLog

\* Blocklist.Load: logger.Info before the deferred Unlock
LoadLocks == <<Lk("blocklist")>> \o LoggerLog \o <<Un("blocklist")>>

\* WriteRawOutput, WriteFilteredOutput, WriteBinaryOutput: logger.Error under
\* the mutex when the write fails or the line is malformed
WriteOutputLocks ==
  {<<Lk("writer"), Un("writer")>>,
   <<Lk("writer")>> \o LoggerLog \o <<Un("writer")>>}

\* Writer.Close: logger.Info at its start and at its end, under the mutex
CloseLocks == <<Lk("writer")>> \o LoggerLog \o LoggerLog \o <<Un("writer")>>

\* w.stats.mu.Lock(); counter++; w.stats.mu.Unlock(), and GetStats
StatsLocks == <<Lk("stats"), Un("stats")>>

\* the calls a thread makes
CallsOf(t) ==
  IF t \in Workers
  THEN {IsBlockedLocks, StatsLocks, LoggerLog} \cup AddHostLocks \cup WriteOutputLocks
  ELSE IF t = SaverThread
  THEN {SaveLocks, LoggerLog}
  ELSE {LoadLocks, StatsLocks, CloseLocks, LoggerLog} \cup WriteOutputLocks

NoCalls == [calls |-> MaxCalls, todo |-> <<>>, held |-> <<>>]

InitLocks ==
  /\ scen = "locks"
  /\ mainPc = "new"
  /\ wk = [t \in Threads |-> NoCalls]
  /\ hostChan = <<>>
  /\ processedCount = 0
  /\ totalLinksCount = 0
  /\ skipCounters = EmptyFn
  /\ blockedHosts = {}
  /\ skippedHosts = {}
  /\ stats = ZeroStats
  /\ out = NewWriter
  /\ blFile = [exists |-> FALSE, entries |-> EmptyFn]
  /\ blHosts = EmptyFn
  /\ saveChan = 0
  /\ stopChan = FALSE
  /\ saver = NewSaver(FALSE)
  /\ timer = "stopped"
  /\ clock = 1
  /\ log = EmptyLog

\* thread t holds lock m in mode a
Holds(t, m, a) == \E i \in DOMAIN wk[t].held : wk[t].held[i] = [a |-> a, m |-> m]

\* thread t has called m.Lock() and has not got it yet
WaitsToLock(t, m) == wk[t].todo # <<>> /\ Head(wk[t].todo) = Lk(m)

\* sync.Mutex and sync.RWMutex: Lock needs the lock free; RLock needs no
\* writer holding it and no writer waiting for it
CanTake(t, e) ==
  IF e.a = "Lock"
  THEN \A u \in Threads : ~Holds(u, e.m, "Lock") /\ ~Holds(u, e.m, "RLock")
  ELSE \A u \in Threads : ~Holds(u, e.m, "Lock") /\ (u # t => ~WaitsToLock(u, e.m))

\* the thread enters one of its calls
Call(t) ==
  /\ wk[t].todo = <<>>
  /\ wk[t].calls > 0
  /\ \E c \in CallsOf(t) :
       wk' = [wk EXCEPT ![t].todo = c, ![t].calls = @ - 1]
  /\ UNCHANGED <<gDisp, totalLinksCount, gSupp, stats, out, gBL, log>>

\* Lock() or RLock() returns
Acquire(t) ==
  /\ wk[t].todo # <<>>
  /\ Head(wk[t].todo).a \in {"Lock", "RLock"}
  /\ CanTake(t, Head(wk[t].todo))
  /\ wk' = [wk EXCEPT ![t].held = Append(@, Head(wk[t].todo)),
                      ![t].todo = Tail(@)]
  /\ UNCHANGED <<gDisp, totalLinksCount, gSupp, stats, out, gBL, log>>

\* Unlock() or RUnlock(): the deferred unlocks run in reverse order
Release(t) ==
  /\ wk[t].todo # <<>>
  /\ Head(wk[t].todo).a \in {"Unlock", "RUnlock"}
  /\ wk' = [wk EXCEPT ![t].held = SubSeq(@, 1, Len(@) - 1),
                      ![t].todo = Tail(@)]
  /\ UNCHANGED <<gDisp, totalLinksCount, gSupp, stats, out, gBL, log>>

NextLocks ==
  \E t \in Threads :
    \/ Call(t)
    \/ Acquire(t)
    \/ Release(t)

SpecLocks == InitLocks /\ [][NextLocks]_vars

(***************************************************************************)
(* Properties                                                              *)
(***************************************************************************)
ProcessHostsReturned == mainPc \in {"returned", "summarized", "done"}

FileHostnames == IF blFile.exists THEN DOMAIN blFile.entries ELSE {}

\* C1: once Blocklist.Close has returned, the blocklist file holds exactly the
\* hostnames loaded at the start of the run and every hostname passed to AddHost
C1_LosslessShutdown ==
  (cfg.enableBlocklist /\ ProcessHostsReturned)
    => FileHostnames = cfg.preFile \cup log.added

\* C2: with maxTotalLinks = T > 0 the walk of a host returns at most T file URLs
\* plus the file links of the one directory that first pushed its count above T
C2_PerHostBudget ==
  cfg.maxTotalLinks > 0
    => \A w \in Workers : Len(wk[w].allLinks) <= cfg.maxTotalLinks + wk[w].trip

RawHostLines == {i \in DOMAIN out.raw : out.raw[i].k = "host"}

\* C3: a base hostname that is in the blocklist file when the run starts is never
\* fetched, as a queued host or as a subdirectory of a walk, and no queued host
\* with that base hostname is written to raw
C3_BlocklistedNeverFetched ==
  cfg.enableBlocklist
    => /\ \A f \in log.fetched : extractBaseHost(f.url) \notin cfg.preFile
       /\ \A i \in RawHostLines : extractBaseHost(out.raw[i].url) \notin cfg.preFile

SkipHostnames == (DOMAIN skipCounters) \cup blockedHosts

\* C4 as stated: in every state a base hostname is in blockedHosts if and only if
\* its skip counter is >= maxSkipsBeforeBlock
C4_BlockedIffCounted ==
  cfg.maxSkipsBeforeBlock > 0
    => \A h \in SkipHostnames :
         h \in blockedHosts <=> Counter(h) >= cfg.maxSkipsBeforeBlock

\* a worker has counted a skip that reaches the threshold and has not yet stored
\* the base hostname in blockedHosts
Promoting(h) == \E w \in Workers : wk[w].pc = "skipBlock" /\ skipBase(w) = h

\* C4 amended: a base hostname in blockedHosts has a skip counter >= K in every
\* state, and a base hostname whose counter is >= K is in blockedHosts except
\* while the worker that counted the K-th skip is about to store it
C4_BlockedIffCountedOrPromoting ==
  cfg.maxSkipsBeforeBlock > 0
    => \A h \in SkipHostnames :
         /\ h \in blockedHosts => Counter(h) >= cfg.maxSkipsBeforeBlock
         /\ Counter(h) >= cfg.maxSkipsBeforeBlock => (h \in blockedHosts \/ Promoting(h))

C4_Witness ==
  /\ cfg.maxSkipsBeforeBlock > 1
  /\ \E h \in blockedHosts : Counter(h) >= cfg.maxSkipsBeforeBlock
  /\ \A w \in Workers : wk[w].pc = "exit"

\* C5: every host of the list is handed to processHost exactly once, and
\* ProcessHosts returns, after every host has been processed
C5_EveryHostOnce ==
  /\ [](\A i \in DOMAIN log.handed : log.handed[i] <= 1)
  /\ [](ProcessHostsReturned =>
          /\ \A i \in DOMAIN log.handed : log.handed[i] = 1
          /\ \A w \in Workers : wk[w].pc = "exit")
  /\ <>ProcessHostsReturned

C5_Witness ==
  /\ ProcessHostsReturned
  /\ Len(Hosts) > NumWorkers
  /\ \A i \in DOMAIN log.handed : log.handed[i] = 1

\* C6: in every state onlineHosts <= totalHosts, filteredFiles <= totalFiles and
\* binaryFilesFound <= checkedFiles
C6_CounterOrder ==
  /\ stats.onlineHosts <= stats.totalHosts
  /\ stats.filteredFiles <= stats.totalFiles
  /\ stats.binaryFilesFound <= stats.checkedFiles

\* both probe paths have counted a binary file, and every host is online
C6_Witness ==
  /\ \E w \in Workers : wk[w].pc = "cBinStat"
  /\ \E i \in DOMAIN out.raw : out.raw[i].k = "binary" /\ out.raw[i].url.path = <<cfg.target>>
  /\ stats.binaryFilesFound = 1
  /\ stats.onlineHosts = stats.totalHosts
  /\ stats.filteredFiles > 0

BinFile == out.binaryFile

UrlLines == {i \in DOMAIN BinFile : BinFile[i].k = "url"}

\* C7: no URL occurs more than once in the binary stream, however often and in
\* whatever order it was reported
C7_NoUrlTwice ==
  /\ \A i, j \in UrlLines : BinFile[i].url = BinFile[j].url => i = j
  /\ \A k1, k2 \in DOMAIN out.binaryFindings :
       \A i \in DOMAIN out.binaryFindings[k1], j \in DOMAIN out.binaryFindings[k2] :
         out.binaryFindings[k1][i].url = out.binaryFindings[k2][j].url
           => k1 = k2 /\ i = j

WellFormed(parts) == Len(parts) = 2 /\ parts[1] # BadURL

\* a URL was reported twice, with different content types, and Close has written
C7_Witness ==
  /\ out.closed
  /\ \E i, j \in DOMAIN log.written :
       /\ i < j
       /\ WellFormed(log.written[i]) /\ WellFormed(log.written[j])
       /\ log.written[i][1] = log.written[j][1]
       /\ log.written[i][2] # log.written[j][2]
       /\ \E l \in UrlLines : BinFile[l].url = log.written[i][1]
  /\ Cardinality(UrlLines) >= 2

HeaderIdx == {i \in DOMAIN BinFile : BinFile[i].k = "header"}

NextHeader(i) ==
  IF \E j \in HeaderIdx : j > i
  THEN CHOOSE j \in HeaderIdx : j > i /\ \A l \in HeaderIdx : l > i => j <= l
  ELSE Len(BinFile) + 1

GroupURLs(i) == [l \in 1..(NextHeader(i) - i - 1) |-> BinFile[i + l].url]

RECURSIVE FirstOccurrences(_, _)
FirstOccurrences(seq, acc) ==
  IF seq = <<>> THEN acc
  ELSE FirstOccurrences(Tail(seq),
                        IF Head(seq) \in Range(acc) THEN acc ELSE Append(acc, Head(seq)))

\* the URLs reported for a key, in the order of their first report
ReportedFor(key) ==
  LET ok == SelectSeq(log.written, LAMBDA p : WellFormed(p) /\ GroupKey(p[1]) = key)
  IN  FirstOccurrences([i \in DOMAIN ok |-> ok[i][1]], <<>>)

FilePcs == {"files", "fRaw", "fFiltStat", "fFilt", "cStat", "cProbe", "cRaw", "cBin", "cBinStat"}

RawFileLines == {i \in DOMAIN out.raw : out.raw[i].k = "file"}

RawFileURLs(h) == {out.raw[i].url : i \in {l \in RawFileLines : out.raw[l].by = h}}

\* C9: for one host no URL is emitted as 'Found file:' twice, although the walk
\* may return it several times, and totalFiles is incremented once for each
\* distinct URL of the host
C9_FoundFileOnce ==
  /\ \A i, j \in RawFileLines :
       (out.raw[i].by = out.raw[j].by /\ out.raw[i].url = out.raw[j].url) => i = j
  /\ stats.totalFiles
       = Cardinality(RawFileLines) + Cardinality({w \in Workers : wk[w].pc = "fRaw"})
  /\ \A w \in Workers :
       wk[w].pc \in FilePcs =>
         /\ wk[w].foundUrls
              = RawFileURLs(wk[w].host) \cup (IF wk[w].pc = "fRaw" THEN {fileURL(w)} ELSE {})
         /\ wk[w].foundUrls \subseteq Range(wk[w].allLinks)
         /\ (wk[w].pc = "files"
             /\ NextFresh(wk[w].allLinks, wk[w].fi, wk[w].foundUrls) > Len(wk[w].allLinks))
              => wk[w].foundUrls = Range(wk[w].allLinks)

\* the walk of a host returned a URL several times and every file is processed
C9_Witness ==
  \E w \in Workers :
    /\ wk[w].pc = "files"
    /\ NextFresh(wk[w].allLinks, wk[w].fi, wk[w].foundUrls) > Len(wk[w].allLinks)
    /\ Len(wk[w].allLinks) > Cardinality(Range(wk[w].allLinks)) + 1
    /\ RawFileURLs(wk[w].host) = Range(wk[w].allLinks)
    /\ stats.totalFiles = Cardinality(Range(wk[w].allLinks))

HostLineBefore(i) ==
  \E j \in RawHostLines : j < i /\ out.raw[j].by = out.raw[i].by

FoundFileWritten(u, h) ==
  \E i \in RawFileLines : out.raw[i].url = u /\ out.raw[i].by = h

\* C10: the URL line of a host is in raw before any 'Found file:' or 'Found
\* binary file:' line of that host, and the 'Found file:' line of a file is in
\* raw before the file is written to filtered and before it is probed
C10_RawOrder ==
  /\ \A i \in DOMAIN out.raw :
       out.raw[i].k \in {"file", "binary"} => HostLineBefore(i)
  /\ \A i \in DOMAIN out.filtered :
       FoundFileWritten(out.filtered[i].url, out.filtered[i].by)
  /\ \A p \in log.probed : p.kind = "HEAD" => FoundFileWritten(p.url, p.by)
  /\ \A w \in Workers :
       wk[w].pc \in {"fFiltStat", "fFilt", "cStat", "cProbe", "cRaw", "cBin", "cBinStat"}
         => FoundFileWritten(fileURL(w), wk[w].host)

\* a file of a host was written to raw, then to filtered, then probed and
\* reported as binary
C10_Witness ==
  \E i \in DOMAIN out.raw :
    /\ out.raw[i].k = "binary"
    /\ \E j \in RawFileLines : j < i /\ out.raw[j].url = out.raw[i].url
    /\ \E l \in DOMAIN out.filtered : out.filtered[l].url = out.raw[i].url
    /\ \E p \in log.probed : p.kind = "HEAD" /\ p.url = out.raw[i].url

(***************************************************************************)
(* The walk of one host run on its own: ScanHostRecursive / scanRecursive  *)
(* executed by a single goroutine, so that totalLinksCount is read and     *)
(* written by this walk only.  st holds count, visited and allLinks.       *)
(***************************************************************************)
RECURSIVE scanRecursiveAlone(_, _, _, _, _)
RECURSIVE scanLoopAlone(_, _, _, _, _)
scanRecursiveAlone(s, c, u, depth, st) ==
  IF OverBudget(c, st.count) THEN st
  ELSE IF VisitedOrDeep(st.visited, u, depth, c.maxDepth) THEN st
  ELSE LET links == LimitLinks(c, extractLinks(u, Surface(s, u).body))
           files == SelectSeq(links, IsFile)
           directories == SelectSeq(links, isDirectory)
       IN  scanLoopAlone(s, c, directories, depth,
                         [count |-> st.count + Len(files),
                          visited |-> st.visited \cup {u},
                          allLinks |-> st.allLinks \o files])

scanLoopAlone(s, c, dirs, depth, st) ==
  IF ~(depth + 1 < c.maxDepth) \/ dirs = <<>> THEN st
  ELSE LET r == Surface(s, Head(dirs))
       IN  IF ~r.err /\ r.online /\ IsDirectoryListing(r.body)
           THEN scanLoopAlone(s, c, Tail(dirs), depth,
                              scanRecursiveAlone(s, c, Head(dirs), depth + 1, st))
           ELSE scanLoopAlone(s, c, Tail(dirs), depth, st)

\* the file URLs processDirectoryContent gets for a host processed on its own
WalkAlone(s, c, u) ==
  LET r == Surface(s, u)
  IN  IF r.err \/ ~r.online \/ ~IsDirectoryListing(r.body) THEN <<>>
      ELSE IF c.recursive /\ c.maxDepth > 1
           THEN scanRecursiveAlone(s, c, u, 0,
                                   [count |-> 0, visited |-> {}, allLinks |-> <<>>]).allLinks
           ELSE extractLinks(u, r.body)

\* C11: when the run is over, the set of file URLs written to raw for a host is
\* the set the walk of that host alone returns (hosts that are walked: not
\* blocklisted before the run, no targeted probe)
C11_SameAsSingleThreaded ==
  (ProcessHostsReturned /\ ~targetedCheckMode)
    => \A i \in DOMAIN Hosts :
         extractBaseHost(Hosts[i]) \notin cfg.preFile
           => RawFileURLs(i) = Range(WalkAlone(scen, cfg, Hosts[i]))

Walked(i) == ~targetedCheckMode /\ extractBaseHost(Hosts[i]) \notin cfg.preFile

\* the lines processFoundFile writes to filtered for host i processed on its own
FilteredAlone(i) ==
  IF Walked(i)
  THEN SelectSeq(FirstOccurrences(WalkAlone(scen, cfg, Hosts[i]), <<>>),
                 LAMBDA u : ShouldFilter(cfg.filters, u))
  ELSE <<>>

\* the filtered stream of the run in which the hosts are processed one after
\* the other in the order of the host list
RECURSIVE FilteredInListOrder(_)
FilteredInListOrder(i) ==
  IF i > Len(Hosts) THEN <<>> ELSE FilteredAlone(i) \o FilteredInListOrder(i + 1)

FilteredStream == [i \in DOMAIN out.filtered |-> out.filtered[i].url]

\* C12: the sequence of lines of the filtered stream at the end of a run is the
\* same for every scheduling of the workers: it is the sequence of the run that
\* processes the hosts one after the other
C12_FilteredDeterministic ==
  (ProcessHostsReturned /\ ~targetedCheckMode)
    => FilteredStream = FilteredInListOrder(1)

\* the run that processes the hosts one after the other exists
C12_ListOrderRun ==
  /\ ProcessHostsReturned /\ ~targetedCheckMode
  /\ Len(out.filtered) >= 3
  /\ FilteredStream = FilteredInListOrder(1)

\* the lines processHost hands to WriteBinaryOutput for host i processed on its
\* own: the target file found by the targeted probe, or else the files of the
\* walk that match the filter, are to be checked and are found binary
ReportsAlone(i) ==
  LET u == Hosts[i]
      r == Surface(scen, u)
      t == CheckSpecificFile(scen, u, cfg.target)
      hit(f) == /\ ShouldFilter(cfg.filters, f)
                /\ ShouldCheck(cfg, f)
                /\ ~CheckFileURL(scen, f).err /\ CheckFileURL(scen, f).found
      files == SelectSeq(FirstOccurrences(WalkAlone(scen, cfg, u), <<>>), hit)
  IN  IF extractBaseHost(u) \in cfg.preFile \/ r.err \/ ~r.online THEN <<>>
      ELSE IF targetedCheckMode /\ ~t.err /\ t.found
           THEN << SplitLine(SpecificFileURL(u, cfg.target), t.ct) >>
      ELSE [l \in DOMAIN files |-> SplitLine(files[l], CheckFileURL(scen, files[l]).ct)]

RECURSIVE ReportsInListOrder(_)
ReportsInListOrder(i) ==
  IF i > Len(Hosts) THEN <<>> ELSE ReportsAlone(i) \o ReportsInListOrder(i + 1)

RECURSIVE WriteAll(_, _)
WriteAll(findings, reports) ==
  IF reports = <<>> THEN findings
  ELSE WriteAll(WriteBinaryOutput(findings, Head(reports)).findings, Tail(reports))

\* the binary stream of the run that processes the hosts one after the other
BinaryInListOrder == writeSortedBinaryFindings(WriteAll(EmptyFn, ReportsInListOrder(1)))

\* C13: the binary stream written at Close is the same for every scheduling of
\* the workers: it is the stream of the run that processes the hosts one after
\* the other
C13_BinaryDeterministic ==
  mainPc = "done" => BinFile = BinaryInListOrder

\* the run that processes the hosts one after the other exists, and its
\* binary stream has a group with findings of two hosts
C13_ListOrderRun ==
  /\ mainPc = "done"
  /\ BinFile = BinaryInListOrder
  /\ \E i \in HeaderIdx : BinFile[i].n >= 2

\* C14: no step of the run removes a hostname from the map of the blocklist,
\* and no Save removes a hostname from the blocklist file
C14_BlocklistMonotonic ==
  [][/\ DOMAIN blHosts \subseteq DOMAIN blHosts'
     /\ FileHostnames \subseteq FileHostnames']_vars

\* a Save of the run has written the loaded hostnames and an added one
C14_Witness ==
  /\ cfg.preFile # {}
  /\ log.added # {}
  /\ FileHostnames = cfg.preFile \cup log.added
  /\ DOMAIN blHosts = FileHostnames

\* the lines of raw without the summary
RawLines == SelectSeq(out.raw, LAMBDA l : l.k # "summary")

\* C15 (scenario S1): raw holds the host URL and then one 'Found file:' line for
\* f.pdf and for g.txt, filtered holds exactly the URL of f.pdf, and the run
\* ends with totalFiles = 2 and filteredFiles = 1
C15_ScenarioS1 ==
  (scen = "s1" /\ ProcessHostsReturned)
    => /\ RawLines = << RawLine("host", HostURL("a.test", 0), "", 1),
                        RawLine("file", Sub("a.test", 0, <<Seg("f", "pdf")>>, FALSE), "", 1),
                        RawLine("file", Sub("a.test", 0, <<Seg("g", "txt")>>, FALSE), "", 1) >>
       /\ FilteredStream = << Sub("a.test", 0, <<Seg("f", "pdf")>>, FALSE) >>
       /\ stats.totalFiles = 2
       /\ stats.filteredFiles = 1

\* C16 (scenario S2): the file set of the host is {x.exe, y.exe} of the root, and
\* sub/ is not fetched
C16_ScenarioS2 ==
  (scen = "s2" /\ ProcessHostsReturned)
    => /\ RawFileURLs(1) = { Sub("b.test", 0, <<Seg("x", "exe")>>, FALSE),
                             Sub("b.test", 0, <<Seg("y", "exe")>>, FALSE) }
       /\ \A f \in log.fetched : f.url # Sub("b.test", 0, <<Seg("sub", "")>>, TRUE)

\* C17 (scenario S3): at most 5 files are emitted, a skip event is recorded for
\* the host, its base hostname is in blockedHosts and, after Close of the
\* blocklist, in the blocklist file
C17_ScenarioS3 ==
  (scen = "s3" /\ ProcessHostsReturned)
    => /\ Cardinality(RawFileLines) <= 5
       /\ Counter("c.test") >= 1
       /\ "c.test" \in blockedHosts
       /\ "c.test" \in FileHostnames

\* the targeted probe of host i finds the target file as binary
TargetFound(i) ==
  LET t == CheckSpecificFile(scen, Hosts[i], cfg.target) IN ~t.err /\ t.found

ShortCircuit(i) == targetedCheckMode /\ TargetFound(i)

\* processHost of host i has returned
Finished(i) == log.handed[i] = 1 /\ \A w \in Workers : wk[w].host # i

\* host i was found online: its URL line is in raw
OnlineHost(i) == \E l \in RawHostLines : out.raw[l].by = i

InFindings(u) ==
  \E k \in DOMAIN out.binaryFindings :
    \E l \in DOMAIN out.binaryFindings[k] : out.binaryFindings[k][l].url = u

C19_FileCheckerModeOnly ==
  targetedCheckMode
    => /\ log.dirs = {}
       /\ RawFileLines = {}
       /\ \A p \in log.probed : p.kind = "GET"

\* what processHost and processDirectoryContent write and count for host i when
\* the links come from ScanHost, the scan of recursive = no
FlatLinks(i) ==
  LET r == Surface(scen, Hosts[i])
  IN  IF r.err \/ ~r.online \/ ~IsDirectoryListing(r.body) THEN <<>>
      ELSE FirstOccurrences(extractLinks(Hosts[i], r.body), <<>>)

FlatRaw(i) ==
  LET r == Surface(scen, Hosts[i])
  IN  IF r.err \/ ~r.online THEN <<>>
      ELSE <<RawLine("host", Hosts[i], "", i)>>
           \o [l \in DOMAIN FlatLinks(i) |-> RawLine("file", FlatLinks(i)[l], "", i)]

FlatFiltered(i) == SelectSeq(FlatLinks(i), LAMBDA u : ShouldFilter(cfg.filters, u))

RawOf(i) == SelectSeq(out.raw, LAMBDA l : l.k # "summary" /\ l.by = i)

FilteredOf(i) ==
  LET own == SelectSeq(out.filtered, LAMBDA l : l.by = i)
  IN  [l \in DOMAIN own |-> own[l].url]

RECURSIVE SumOver(_, _)
SumOver(F(_), n) == IF n = 0 THEN 0 ELSE F(n) + SumOver(F, n - 1)

\* C20: a run with recursive = yes and maxDepth = 1 and a run with recursive = no
\* over the same hosts and bodies end with the same raw lines and filtered
\* lines for every host, the same stats and the same fetch calls, those of
\* ScanHost: only the host URLs are fetched
C20_DepthOneIsFlat ==
  (scen \in {"depth1", "flat"} /\ ProcessHostsReturned)
    => /\ \A i \in DOMAIN Hosts :
            /\ RawOf(i) = FlatRaw(i)
            /\ FilteredOf(i) = FlatFiltered(i)
       /\ log.fetched = {Fetched(Hosts[i], i, TRUE) : i \in DOMAIN Hosts}
       /\ stats.totalFiles = SumOver(LAMBDA i : Len(FlatLinks(i)), Len(Hosts))
       /\ stats.filteredFiles = SumOver(LAMBDA i : Len(FlatFiltered(i)), Len(Hosts))
       /\ stats.onlineHosts = Len(Hosts)
       /\ totalLinksCount = 0 /\ skipCounters = EmptyFn /\ blockedHosts = {}

\* the run with recursive = yes and maxDepth = 1 is over: the subdirectory link
\* was emitted like a file and not fetched
C20_Witness ==
  /\ scen = "depth1" /\ cfg.recursive /\ ProcessHostsReturned
  /\ \E l \in RawFileLines : isDirectory(out.raw[l].url)
  /\ Cardinality(log.fetched) = 2
  /\ stats.totalFiles = 4

DataLines(lines) == SelectSeq(lines, LAMBDA l : l.kind = "data")

Hostnames(lines) == {l.host : l \in Range(DataLines(lines))}

\* the data line Load keeps for hostname h: the last one of the file
LoadedLine(lines, h) ==
  LET own == SelectSeq(lines, LAMBDA l : l.kind = "data" /\ l.host = h)
  IN  Last(own)

\* C21: after Load and Save the file holds one data line for each hostname of
\* the data lines loaded and for no other, with a timestamp equal to or later
\* than the loaded one, and with the second of the load for a hostname whose
\* line held no timestamp
C21_RoundTrip ==
  mainPc = "saved"
    => /\ Hostnames(blFile.lines) = Hostnames(log.written)
       /\ Len(DataLines(blFile.lines)) = Cardinality(Hostnames(log.written))
       /\ \A l \in Range(DataLines(blFile.lines)) :
            /\ l.stamp = "ok"
            /\ LoadedLine(log.written, l.host).stamp = "ok"
                 => l.t >= LoadedLine(log.written, l.host).t
            /\ LoadedLine(log.written, l.host).stamp = "none"
                 => l.t = Format(clock - 1)

\* the fetch of host i returns a hard error or reports the host offline
FetchFails(i) == LET r == Surface(scen, Hosts[i]) IN r.err \/ ~r.online

\* C22: the step that gets a failed fetch of a host returns from processHost
\* to the receive of the next host and changes no output, no counter and no
\* suppression state; nothing is ever written, probed or walked for that
\* host; and when ProcessHosts has returned every host was handed over once
\* and every fetched host that is online has its URL line in raw
C22_FailureIsolation ==
  /\ [](\A i \in DOMAIN Hosts :
          FetchFails(i)
            => /\ RawOf(i) = <<>> /\ FilteredOf(i) = <<>>
               /\ i \notin log.dirs
               /\ \A p \in log.probed : p.by # i)
  /\ [][\A w \in Workers :
          (wk[w].pc = "fetch" /\ FetchFails(wk[w].host) /\ wk'[w] # wk[w])
            => /\ wk'[w] = Returned
               /\ UNCHANGED <<stats, out, skipCounters, blockedHosts, skippedHosts,
                              blHosts, blFile>>]_vars
  /\ [](ProcessHostsReturned
          => \A i \in DOMAIN Hosts :
               /\ log.handed[i] = 1
               /\ (Fetched(Hosts[i], i, TRUE) \in log.fetched /\ ~FetchFails(i))
                    => OnlineHost(i))

\* one host failed with a hard error and one was offline, both were fetched,
\* a third host was processed to the end, and every counter is that of the
\* one online host
C22_Witness ==
  /\ ProcessHostsReturned
  /\ \E i, j \in DOMAIN Hosts :
       /\ Surface(scen, Hosts[i]).err /\ Fetched(Hosts[i], i, TRUE) \in log.fetched
       /\ ~Surface(scen, Hosts[j]).err /\ ~Surface(scen, Hosts[j]).online
       /\ Fetched(Hosts[j], j, TRUE) \in log.fetched
  /\ \E i \in DOMAIN Hosts : OnlineHost(i) /\ RawFileURLs(i) # {}
  /\ stats.onlineHosts = 1
  /\ stats.writeErrors = 0

\* the positions at which a worker calls a write of the Writer
WritePcs == {"rawHost", "tRaw", "tBin", "fRaw", "fFilt", "cRaw", "cBin"}

\* the position of worker w after the write it is about to make, when the
\* write succeeds
AfterSuccess(w) ==
  CASE wk[w].pc = "rawHost" -> IF targetedCheckMode THEN "probe" ELSE "dir1"
    [] wk[w].pc = "tRaw" -> "tBin"
    [] wk[w].pc = "tBin" -> "tStat"
    [] wk[w].pc = "fRaw" -> IF ShouldFilter(cfg.filters, fileURL(w)) THEN "fFiltStat" ELSE "files"
    [] wk[w].pc = "fFilt" -> IF ShouldCheck(cfg, fileURL(w)) THEN "cStat" ELSE "files"
    [] wk[w].pc = "cRaw" -> "cBin"
    [] wk[w].pc = "cBin" -> "cBinStat"
    [] OTHER -> ""

\* host i gets a directory walk: it is online and not short-circuited
WalkedOnline(i) == ~FetchFails(i) /\ ~ShortCircuit(i)

FilesOf(i) ==
  IF WalkedOnline(i) THEN FirstOccurrences(WalkAlone(scen, cfg, Hosts[i]), <<>>) ELSE <<>>

\* C23: every write that returns an error during host processing is followed
\* by one increment of writeErrors by the worker that made it, which then
\* stands where a successful write would have left it; the other counters
\* end as in a run without failures, and when ProcessHosts has returned
\* writeErrors is the number of failed writes
C23_WriteErrorsCounted ==
  /\ [](stats.writeErrors + Cardinality({w \in Workers : wk[w].pc = "wErr"}) = log.failed)
  /\ [](ProcessHostsReturned
          => /\ stats.writeErrors = log.failed
             /\ scen \in FaultyScenarios
                  => /\ stats.totalFiles = SumOver(LAMBDA i : Len(FilesOf(i)), Len(Hosts))
                     /\ stats.filteredFiles
                          = SumOver(LAMBDA i : Len(SelectSeq(FilesOf(i),
                                                 LAMBDA u : ShouldFilter(cfg.filters, u))),
                                    Len(Hosts))
                     /\ stats.binaryFilesFound
                          = SumOver(LAMBDA i : Len(ReportsAlone(i)), Len(Hosts)))
  /\ [][\A w \in Workers :
          /\ (wk[w].pc \in WritePcs /\ wk'[w] # wk[w] /\ log'.failed # log.failed)
               => /\ log'.failed = log.failed + 1
                  /\ wk'[w].pc = "wErr"
                  /\ wk'[w].ret = AfterSuccess(w)
                  /\ stats' = stats
          /\ (wk[w].pc \in WritePcs /\ wk'[w] # wk[w] /\ log'.failed = log.failed)
               => wk'[w].pc = AfterSuccess(w)
          /\ (wk[w].pc = "wErr" /\ wk'[w] # wk[w])
               => /\ stats' = [stats EXCEPT !.writeErrors = @ + 1]
                  /\ wk'[w].pc = wk[w].ret]_vars

\* a run in which a raw write, a filtered write and the binary line with a
\* second separator failed, after a raw line and a finding were accepted
C23_Witness ==
  /\ ProcessHostsReturned
  /\ scen = "werr"
  /\ out.rawErr /\ out.filteredErr
  /\ out.raw # <<>> /\ out.binaryFindings # EmptyFn
  /\ stats.writeErrors >= 3
  /\ stats.writeErrors = log.failed
  /\ stats.binaryFilesFound = 2

AllWorkersDone == \A w \in Workers : wk[w].pc = "exit"

\* C24 as stated: the blocklist and the writer are closed only after every
\* worker has finished, and when ProcessHosts has returned the saver has exited
\* and the writer is closed
C24_ShutdownOrder ==
  /\ stopChan => AllWorkersDone
  /\ out.closed => AllWorkersDone
  /\ ProcessHostsReturned
       => /\ cfg.enableBlocklist => saver.pc = "exited"
          /\ out.closed

\* C24 amended: ProcessHosts closes the blocklist itself, only after every
\* worker has finished, and when it returns the saver has exited; the writer
\* is still open then: the caller writes the summary and closes the writer
\* afterwards
C24_ShutdownOrderCallerCloses ==
  /\ stopChan => AllWorkersDone
  /\ ProcessHostsReturned
       => /\ AllWorkersDone
          /\ cfg.enableBlocklist => stopChan /\ saver.pc = "exited"
  /\ mainPc = "returned" => ~out.closed
  /\ out.closed
       => /\ mainPc = "done"
          /\ \E i \in DOMAIN out.raw : out.raw[i].k = "summary"

\* a run with the blocklist enabled and a host added is over: the saver has
\* exited, the summary is in raw and the writer is closed
C24_Witness ==
  /\ mainPc = "done"
  /\ cfg.enableBlocklist /\ stopChan /\ saver.pc = "exited"
  /\ log.added # {}
  /\ out.closed
  /\ Last(out.raw).k = "summary"

\* worker w is inside ScanHostRecursive
InWalk(w) == wk[w].stack # <<>>

FetchedFor(l, i) == {f \in l.fetched : f.by = i}

\* C25: once the walk of a host has collected more than maxTotalLinks > 0 file
\* URLs, no later step of that walk fetches a URL, scans a further directory
\* or adds a file URL
C25_StopsAtBudget ==
  [][\A w \in Workers :
       (cfg.maxTotalLinks > 0 /\ InWalk(w) /\ Len(wk[w].allLinks) > cfg.maxTotalLinks)
         => /\ FetchedFor(log', wk[w].host) = FetchedFor(log, wk[w].host)
            /\ wk'[w].visited \subseteq wk[w].visited
            /\ wk'[w].allLinks = wk[w].allLinks]_vars

\* worker w is inside ScanHostRecursive, its skip callback included
Walking(w) ==
  wk[w].pc \in {"reset", "scan", "add", "loop", "skipInc", "skipBlock", "skipAdd", "skipMark"}

\* C26: no directory is scanned at a depth >= maxDepth, no directory is fetched
\* at a depth > maxDepth - 1, no URL is scanned twice in the walk of one host,
\* the calls on the stack are one level apart, and every walk returns
C26_BoundedWalk ==
  /\ [](\A i \in DOMAIN log.scanned : log.scanned[i].depth < cfg.maxDepth)
  /\ [](\A d \in log.descents : d.depth <= cfg.maxDepth - 1)
  /\ [](\A i, j \in DOMAIN log.scanned :
          (log.scanned[i].by = log.scanned[j].by /\ log.scanned[i].url = log.scanned[j].url)
            => i = j)
  /\ [](\A w \in Workers : \A k \in DOMAIN wk[w].stack : wk[w].stack[k].depth = k - 1)
  /\ \A w \in Workers : Walking(w) ~> ~Walking(w)

\* the walk over two listings that link to each other has returned: each was
\* scanned once, one was fetched again at depth 3 and not scanned again
C26_Witness ==
  /\ scen = "cycle" /\ ProcessHostsReturned
  /\ Len(log.scanned) = 3
  /\ \E d \in log.descents :
       /\ d.depth = 3
       /\ \E i \in DOMAIN log.scanned : log.scanned[i].url = d.url /\ log.scanned[i].depth = 1
  /\ Cardinality(RawFileURLs(1)) = 3

\* the directories scanned for host i: its root and those the walk scanned
ScannedDirs(i) ==
  {Hosts[i]} \cup {log.scanned[k].url : k \in {l \in DOMAIN log.scanned : log.scanned[l].by = i}}

\* the first maxLinksPerDirectory links of directory d, or all when the cap is 0
FirstLinks(d) == Range(LimitLinks(cfg, extractLinks(d, Surface(scen, d).body)))

\* C27: every URL processed as a file of a host and every subdirectory fetched
\* for it is among the first maxLinksPerDirectory extracted links of a
\* directory scanned for that host, in recursive and non-recursive mode alike
C27_PerDirectoryCap ==
  /\ \A l \in RawFileLines :
       \E d \in ScannedDirs(out.raw[l].by) : out.raw[l].url \in FirstLinks(d)
  /\ \A f \in log.descents :
       \E d \in ScannedDirs(f.by) : f.url \in FirstLinks(d)

\* the same for the hosts scanned by ScanHostRecursive only
C27_RecursiveOnly == UseRecursive(cfg) => C27_PerDirectoryCap

\* C28: a host that is suppressed when processHost starts on it -- its base
\* hostname in the blocklist or in blockedHosts, or its URL in skippedHosts --
\* is never fetched, has nothing written, probed or walked, and its
\* processing changes no Stats counter; and a host whose base hostname is
\* blocked when its directory processing begins is not walked and emits no file
C28_PreflightSuppression ==
  /\ [](\A i \in log.suppressed :
          /\ \A f \in log.fetched : f.by # i
          /\ RawOf(i) = <<>> /\ FilteredOf(i) = <<>>
          /\ \A p \in log.probed : p.by # i
          /\ i \notin log.dirs)
  /\ [][\A w \in Workers :
          (wk[w].host \in log.suppressed /\ wk'[w] # wk[w]) => stats' = stats]_vars
  /\ [](\A i \in log.dirBlocked :
          /\ RawFileURLs(i) = {}
          /\ \A k \in DOMAIN log.scanned : log.scanned[k].by # i
          /\ \A w \in Workers :
               wk[w].host = i => ~Walking(w) /\ wk[w].pc \notin FilePcs)

\* the second host started after its base hostname was put in blockedHosts
\* and the third after its URL was put in skippedHosts; neither was fetched
C28_Witness ==
  /\ scen = "suppress" /\ ProcessHostsReturned
  /\ log.suppressed = {2, 3}
  /\ extractBaseHost(Hosts[2]) \in blockedHosts
  /\ extractBaseHost(Hosts[3]) \notin blockedHosts /\ Hosts[3] \in skippedHosts
  /\ \A f \in log.fetched : f.by = 1
  /\ stats.onlineHosts = 1

\* a worker stands right before its call of Blocklist.AddHost
AtAddHost(w) == wk[w].pc = "skipAdd"

\* Save is between RUnlock and the end of its file I/O
FileWriteInProgress == saver.pc \in {"save", "finalSave"}

\* C29: AddHost never waits for the saver: the save channel never holds more
\* than one signal, an AddHost that finds it full completes and leaves it
\* full, and while Save does its file I/O every pending AddHost and IsBlocked
\* call can be taken
C29_AddHostNeverWaits ==
  /\ [](saveChan \in {0, 1})
  /\ [][\A w \in Workers :
          (AtAddHost(w) /\ wk'[w] # wk[w] /\ saveChan = 1)
            => wk'[w].pc = "skipMark" /\ saveChan' = 1]_vars
  /\ [](FileWriteInProgress =>
          \A w \in Workers :
            /\ AtAddHost(w) => ENABLED SkipAddHost(w)
            /\ wk[w].pc = "pre1" => ENABLED PreflightBlocklist(w)
            /\ wk[w].pc = "dir1" => ENABLED DirCheckBlocklist(w))

\* a host was added to the map after Save took its copy and before Save
\* finished writing the file
C29_Witness ==
  /\ saver.pc = "save"
  /\ \E h \in DOMAIN blHosts : h \notin DOMAIN saver.snapshot

\* the saver takes a signal from saveChan
TakesSignal == saver.pc = "select" /\ saveChan = 1 /\ saveChan' = 0

\* a Save finishes its file write
SaveWrites == FileWriteInProgress /\ saver'.pc # saver.pc

\* C30, first part: a signal taken while no save is pending arms the timer
\* and sets pendingSave; a signal taken while a save is pending changes
\* neither the timer nor the saver; the Save at expiry copies the whole map
C30_ArmsOnce ==
  /\ [][(TakesSignal /\ ~saver.pendingSave)
          => timer' = "running" /\ saver'.pendingSave]_vars
  /\ [][(TakesSignal /\ saver.pendingSave)
          => timer' = timer /\ saver' = saver]_vars
  /\ [][(saver.pc = "select" /\ saver'.pc \in {"copy", "finalCopy"})
          => saver'.snapshot = blHosts]_vars

\* C30: debounce and coalescing: the timer is armed once per window, and as
\* long as every host was added before or inside a window (none after an
\* expiry), every Save writes a file that differs from the one before it,
\* that is, no burst is written twice
C30_OneWritePerBurst ==
  /\ C30_ArmsOnce
  /\ [][(SaveWrites /\ log.late = {}) => blFile' # blFile]_vars

\* the saver is inside its final Save or has returned
SaverLeaving == saver.pc \in {"finalCopy", "finalSave", "exited"}

\* C31: the save worker leaves its loop only when stopChan is closed; when
\* Blocklist.Close has returned the saver has exited, and from then on the
\* saver does nothing and the blocklist file is not written; and Close,
\* once called, returns
C31_SaverStopsOnlyOnClose ==
  /\ [](SaverLeaving => stopChan)
  /\ []((cfg.enableBlocklist /\ ProcessHostsReturned) => saver.pc = "exited")
  /\ [][ProcessHostsReturned => (saver' = saver /\ blFile' = blFile)]_vars
  /\ (mainPc = "closing" ~> mainPc = "returned")

\* Close has returned after a final Save that the stop case made because a
\* window was still open
C31_Witness ==
  /\ scen = "burst" /\ mainPc = "returned"
  /\ saver.pc = "exited" /\ saver.pendingSave
  /\ DOMAIN blFile.entries = {"b.test", "c.test", "e.test"}

\* a thread is inside a call
Busy(t) == wk[t].todo # <<>>

\* no thread is stuck: when some thread is inside a call, some thread can step
NoDeadlock == (\E t \in Threads : Busy(t)) => ENABLED NextLocks

\* the locks thread t holds, as the sequence of their components
HeldBy(t) == [i \in DOMAIN wk[t].held |-> wk[t].held[i].m]

\* C32: no reachable state is a deadlock, and no thread holds the locks of
\* two components at once
C32_SingleObjectLocking ==
  /\ NoDeadlock
  /\ \A t \in Threads : Len(HeldBy(t)) <= 1

\* C32 as amended: no reachable state is a deadlock; a thread holds at most
\* two locks, and then the second is the logger mutex taken under the
\* blocklist lock or the writer mutex; nothing is taken under the logger
\* mutex or the stats mutex
C32_LoggerIsInnermost ==
  /\ NoDeadlock
  /\ \A t \in Threads :
       /\ Len(HeldBy(t)) <= 2
       /\ Len(HeldBy(t)) = 2 =>
            HeldBy(t)[1] \in {"blocklist", "writer"} /\ HeldBy(t)[2] = "logger"

\* a worker logs under the blocklist lock while the dispatcher, under the
\* writer mutex, waits for the logger mutex
C32_Witness ==
  /\ \E w \in Workers : HeldBy(w) = <<"blocklist", "logger">>
  /\ HeldBy(MainThread) = <<"writer">> /\ WaitsToLock(MainThread, "logger")

\* the fetch of host i reports online with an empty body
OnlineEmpty(i) ==
  LET r == Surface(scen, Hosts[i])
  IN  r.online /\ ~r.err /\ r.body = EmptyBody

\* C33: a host whose fetch reports online with an empty body is counted in
\* onlineHosts and gets its host line, and nothing more: no targeted probe is
\* made for it and processDirectoryContent is not called for it
C33_EmptyBodyReturns ==
  \A i \in DOMAIN Hosts :
    OnlineEmpty(i)
      => /\ \A p \in log.probed : p.by # i
         /\ i \notin log.dirs
         /\ \A k \in DOMAIN out.raw : out.raw[k].by = i => out.raw[k].k = "host"

\* the target file names of the scenarios that contain "..", "/" or "\"
TraversalNames == {"../payload"}

\* C34: when targetFileName contains "..", "/" or "\" the targeted probe is
\* refused: no request is made for it, the binary stream stays empty, and
\* every online host gets its directory processing
C34_TraversalRefused ==
  (targetedCheckMode /\ cfg.target.n \in TraversalNames)
    => /\ log.probed = {}
       /\ out.binaryFindings = NewWriter.binaryFindings
       /\ \A i \in DOMAIN Hosts : (Finished(i) /\ OnlineHost(i)) => i \in log.dirs

\* scheme://host:port of a URL
AuthorityOf(u) == <<u.scheme, u.host, u.port>>

SkipPcs == {"skipInc", "skipBlock", "skipAdd", "skipMark"}

\* C35: the walk of a host fetches only URLs of that host's own
\* scheme://host:port, and a skip event raised in the walk of a host is
\* counted for, and can only block, that host's own base hostname
C35_StaysOnAuthority ==
  /\ \A f \in log.fetched : AuthorityOf(f.url) = AuthorityOf(Hosts[f.by])
  /\ \A w \in Workers : wk[w].pc \in SkipPcs => skipBase(w) = baseHost(w)

\* C36: AddHost for a hostname that is already in the map changes neither the
\* map, with its timestamps, nor the save channel; AddHost for a new hostname
\* adds exactly that hostname and leaves the other entries as they were
C36_AddHostIdempotent ==
  [][\A w \in Workers :
       (cfg.enableBlocklist /\ AtAddHost(w) /\ wk'[w] # wk[w])
         => IF skipBase(w) \in DOMAIN blHosts
            THEN blHosts' = blHosts /\ saveChan' = saveChan
            ELSE /\ DOMAIN blHosts' = DOMAIN blHosts \cup {skipBase(w)}
                 /\ \A h \in DOMAIN blHosts : blHosts'[h] = blHosts[h]]_vars

\* AddHost is about to be called for a hostname that was loaded from the file,
\* with no save signal pending
C36_Witness ==
  /\ cfg.enableBlocklist
  /\ \E w \in Workers :
       /\ AtAddHost(w) /\ ~HoldsReadLock(saver)
       /\ skipBase(w) \in cfg.preFile /\ skipBase(w) \in DOMAIN blHosts
  /\ saveChan = 0

\* C37: with the blocklist disabled the persistent tier is inert: the map stays
\* empty whatever the file holds, IsBlocked is false for every host, there is
\* no save worker and no signal, Close does not wait, and the file stays as it
\* was; the in-run tier works: a base hostname with maxSkipsBeforeBlock skips
\* is in blockedHosts once its promotion is stored, and a host that starts
\* with its base hostname in blockedHosts is not fetched
C37_DisabledBlocklistInert ==
  ~cfg.enableBlocklist
    => /\ blHosts = EmptyFn
       /\ \A i \in DOMAIN Hosts : ~IsBlocked(extractBaseHost(Hosts[i]))
       /\ saver.pc = "off" /\ ~saver.pendingSave
       /\ saveChan = 0 /\ ~stopChan /\ timer = "stopped"
       /\ mainPc # "closing"
       /\ blFile = PreFile(cfg)
       /\ cfg.maxSkipsBeforeBlock > 0
            => \A h \in DOMAIN skipCounters :
                 Counter(h) >= cfg.maxSkipsBeforeBlock
                   => (h \in blockedHosts \/ Promoting(h))
       /\ \A i \in log.suppressed : \A f \in log.fetched : f.by # i

\* the run is over with the blocklist disabled: the first host, whose base
\* hostname is in the file, was fetched; AddHost was called for a.test, which
\* is in blockedHosts, and the second host, of base hostname a.test, was
\* not fetched
C37_Witness ==
  /\ scen = "suppress" /\ mainPc = "done"
  /\ extractBaseHost(Hosts[1]) \in FileHostnames
  /\ \E f \in log.fetched : f.by = 1 /\ f.root
  /\ "a.test" \in log.added /\ "a.test" \in blockedHosts
  /\ 2 \in log.suppressed
  /\ \A f \in log.fetched : f.by # 2

\* C38: Writer.Close is idempotent: the first Close writes the grouped
\* findings to the binary file, and a Close of a closed writer changes
\* nothing of the writer and returns nil
C38_CloseIdempotent ==
  /\ [][(~out.closed /\ out'.closed)
          => out'.binaryFile = writeSortedBinaryFindings(out.binaryFindings)]_vars
  /\ [][out.closed => out' = out]_vars
  /\ [](\A k \in DOMAIN log.closeRet : k > 1 => log.closeRet[k] = "nil")

\* Close was called twice on a writer with findings and a failed raw writer:
\* the first Close returned the error, the second nil, and the file holds the
\* groups once
C38_Witness ==
  /\ log.closeRet = <<"error", "nil">>
  /\ out.binaryFindings # EmptyFn
  /\ out.binaryFile = writeSortedBinaryFindings(out.binaryFindings)
  /\ out.binaryFile # <<>>

\* C39: nothing is written to the Writer after its Close: Close is called
\* when ProcessHosts has returned and the summary (and the warning, if any)
\* has been written; from then on every worker has exited and the writer does
\* not change
C39_NoWriteAfterClose ==
  /\ [][(~out.closed /\ out'.closed)
          => /\ mainPc = "summarized"
             /\ out.raw # <<>> /\ Last(out.raw).k \in {"summary", "warning"}]_vars
  /\ [](out.closed => mainPc = "done" /\ AllWorkersDone)
  /\ [][out.closed
          => /\ out'.raw = out.raw /\ out'.filtered = out.filtered
             /\ out'.binaryFindings = out.binaryFindings
             /\ out'.binaryFile = out.binaryFile]_vars

\* the writer is closed after a run with write errors: raw ends with the
\* summary and the warning, and the lines of the workers come before them
C39_Witness ==
  /\ out.closed /\ stats.writeErrors > 0
  /\ Len(out.raw) >= 4
  /\ out.raw[Len(out.raw)].k = "warning"
  /\ out.raw[Len(out.raw) - 1].k = "summary"
  /\ out.raw[1].k = "host"
  /\ out.filtered # <<>>

\* the only walk of the run is a recursive one: no other worker touches the
\* counter
SingleWalk == Len(Hosts) = 1 /\ UseRecursive(cfg)

\* scanRecursive has found the count above the budget and called the skip
\* callback
SkipRaised == skipCounters # EmptyFn \/ \E w \in Workers : wk[w].pc = "skipInc"

\* C40: in a recursive walk that runs alone the count never decreases, and
\* after the first skip event no directory is scanned and no file URL is
\* appended to the result: every later scanRecursive call returns at the
\* budget check
C40_FrozenAfterTrip ==
  /\ [][SingleWalk => totalLinksCount' >= totalLinksCount]_vars
  /\ [][(SingleWalk /\ SkipRaised)
          => /\ log'.scanned = log.scanned
             /\ totalLinksCount' = totalLinksCount
             /\ \A w \in Workers :
                  Walking(w) => wk'[w].allLinks = wk[w].allLinks]_vars
  /\ [][\A w \in Workers :
          (SingleWalk /\ SkipRaised /\ wk[w].pc = "scan" /\ wk'[w] # wk[w])
            => wk'[w].pc = "skipInc"]_vars

\* the walk has tripped the budget in four directories after its root gave two
\* files: the result is those two files
C40_Witness ==
  /\ scen = "burst"
  /\ Counter("b.test") = 2 /\ Counter("c.test") = 1 /\ Counter("e.test") = 1
  /\ \E w \in Workers : wk[w].pc = "files" /\ Len(wk[w].allLinks) = 2
  /\ Len(log.scanned) = 1
  /\ totalLinksCount = 2

====
